---- MODULE Spec2Model ----
(***************************************************************************)
(* Model of the MesonetMap weather-mapping service.                        *)
(*                                                                         *)
(* Units.  Latitudes and longitudes are integers in 1e-4 degree            *)
(* (39.1001 deg is 391001); a rounded coordinate is an integer in 1e-2     *)
(* degree (39.10 deg is 3910).  Temperatures and pressures are integers in *)
(* 1e-2 of their unit (70.0 F is 7000, 1013.25 hPa is 101325).             *)
(***************************************************************************)
EXTENDS Integers, Sequences, FiniteSets, TLC

VARIABLES
    pc,         \* per thread / process: where it is in its cycle
    ncycles,    \* cycles started so far
    fetched,    \* per thread: the tuple fetch_all_mesonet_data returned
    built,      \* per thread: combined_map, what the map builder returned
    result,     \* per thread: how its last finished cycle ended
    mapFile,    \* maps/mesonet_combined_weather_map.html on disk
    tmpPa,      \* temp_pennsylvania_data.csv on disk
    served,     \* the last answer of GET /map
    status,     \* the "status" of the last answer of GET /api/status
    serving,    \* app.run has been reached (Flask answers requests)
    dedup_in,   \* dedup study: the five per-source station lists
    dedup_out,  \* dedup study: all_weather_data after the dedup loop
    norm_in,    \* normalizer study: one raw row and the normalizer it is for
    norm_out,   \* normalizer study: what the normalizer made of it
    map_in,     \* map-builder study: the station list handed to the builder
    map_out,    \* map-builder study: what the builder returned
    batch_in,   \* batch study: a normalizer and the rows of one batch
    batch_out,  \* batch study: the records returned, the error lines printed
    level_in,   \* level study: a level builder and the extremes of its data
    level_out,  \* level study: the contour levels it built
    grid_in,    \* grid study: a map builder and the stations it interpolates
    grid_out,   \* grid study: how the interpolation ended, the values gridded
    cycle       \* cycle study: the position of one cycle, its data, its events

vars == << pc, ncycles, fetched, built, result, mapFile, tmpPa, served,
           status, serving, dedup_in, dedup_out, norm_in, norm_out, map_in, map_out,
           batch_in, batch_out, level_in, level_out, grid_in, grid_out,
           cycle >>

-----------------------------------------------------------------------------
(* Values that are not numbers.  A float NaN and Python's None are kept as   *)
(* integers far outside every physical range so that they can sit in the     *)
(* same fields as numbers.                                                   *)

NaN == -999002

None == -999001

IsNumber(v) == v # NaN /\ v # None

\* Python float equality: NaN is equal to nothing, itself included.
PyEq(a, b) == a # NaN /\ b # NaN /\ a = b

-----------------------------------------------------------------------------
(* round(x, 2): x in 1e-4 degree, result in 1e-2 degree.  Round half to     *)
(* even, as Python does on an exactly representable tie; NaN rounds to NaN. *)

Round2(x) ==
    IF x = NaN THEN NaN
    ELSE LET q == x \div 100
             r == x % 100
         IN  IF r < 50 THEN q
             ELSE IF r > 50 THEN q + 1
             ELSE IF q % 2 = 0 THEN q ELSE q + 1

location_key(station) == << Round2(station.lat), Round2(station.lon) >>

\* `location_key not in seen_locations`: tuple equality, element by element.
KeyEq(k1, k2) == PyEq(k1[1], k2[1]) /\ PyEq(k1[2], k2[2])

KeySeen(key, seen_locations) == \E k \in seen_locations : KeyEq(k, key)

\* The dedup loop: one pass in input order with the set of seen keys.
RECURSIVE DedupLoop(_, _, _, _)
DedupLoop(combined_data, i, seen_locations, out) ==
    IF i > Len(combined_data) THEN out
    ELSE LET station == combined_data[i]
             key == location_key(station)
         IN  IF ~KeySeen(key, seen_locations)
             THEN DedupLoop(combined_data, i + 1, seen_locations \cup {key},
                            Append(out, station))
             ELSE DedupLoop(combined_data, i + 1, seen_locations, out)

\* The loop keeping the last record of every key instead of the first.
DedupKeepLast(combined_data) ==
    LET n == Len(combined_data)
        keep == { i \in 1..n : ~\E j \in (i+1)..n :
                      KeyEq(location_key(combined_data[j]),
                            location_key(combined_data[i])) }
        RECURSIVE Pick(_)
        Pick(i) == IF i > n THEN << >>
                   ELSE IF i \in keep THEN << combined_data[i] >> \o Pick(i + 1)
                   ELSE Pick(i + 1)
    IN  Pick(1)

\* The loop with seen_locations.add forgotten: every record is appended.
DedupSeenNeverAdded(combined_data) == combined_data

\* The loop taking a key out of seen_locations again when it drops a record
\* for it: the third record of a key is kept.
DedupForgetsDroppedKey(combined_data) ==
    LET RECURSIVE Loop(_, _, _)
        Loop(i, seen_locations, out) ==
            IF i > Len(combined_data) THEN out
            ELSE LET station == combined_data[i]
                     key == location_key(station)
                 IN  IF ~KeySeen(key, seen_locations)
                     THEN Loop(i + 1, seen_locations \cup {key}, Append(out, station))
                     ELSE Loop(i + 1,
                               { k \in seen_locations : ~KeyEq(k, key) }, out)
    IN  Loop(1, {}, << >>)

Dedup(combined_data) == DedupLoop(combined_data, 1, {}, << >>)

\* combined_data = maryland + pennsylvania + virginia + newyork + asos
Combine(md, pa, va, ny, asos) == md \o pa \o va \o ny \o asos

-----------------------------------------------------------------------------
(* Raw values.  A CSV cell read by pandas is a number, NaN (blank cell) or   *)
(* text; the Iowa Mesonet request asks for the text 'M' where a value is     *)
(* missing.  A row is a function from the column names of its DataFrame.     *)

M == -999003

Unknown == -999004

\* pd.notna(v): false for NaN and None, true for numbers and text.
notna(v) == v # NaN /\ v # None

\* float(v) raises ValueError on the text 'M' and TypeError on None.
FloatRaises(v) == v = M \/ v = None

\* round(x, 1) of a value in 1e-2 units, result in 1e-2 units (half to even).
Round1(x) ==
    IF x = NaN THEN NaN
    ELSE LET q == x \div 10
             r == x % 10
         IN  10 * (IF r < 5 THEN q
                   ELSE IF r > 5 THEN q + 1
                   ELSE IF q % 2 = 0 THEN q ELSE q + 1)

\* inHg (1e-2) to hPa (1e-2): alti * 33.863886, cut to the model's resolution.
AltiToHpa(alti) ==
    LET q1 == (alti * 863) \div 1000
        r1 == (alti * 863) % 1000
    IN  alti * 33 + q1 + (r1 * 1000 + alti * 886) \div 1000000

\* knots (1e-2) to mph (1e-2): sknt * 1.15078, cut to the model's resolution.
KnotsToMph(sknt) == (sknt * 115078) \div 100000

\* C to F in 1e-2 units: v * 9 / 5 + 32.
CtoF(v) == (v * 9) \div 5 + 3200

\* The result of normalizing one row: a record was appended, or the row was
\* skipped (by `continue`, or by the per-row `except`).
\* A row the normalizer left out without an exception.
Skipped == [appended |-> FALSE, raised |-> FALSE]

\* A row whose processing raised; the except clause of the loop went on.
Raised == [appended |-> FALSE, raised |-> TRUE]

Appended(rec) == [appended |-> TRUE, raised |-> FALSE, record |-> rec]

\* A field the code reads with a default when the first choice is unusable.
Usable(row, col) == col \in DOMAIN row /\ notna(row[col]) /\ row[col] # M

\* MarylandMesonetFetcher._get_station_coordinates
MdStationCoordinates(station_id) ==
    CASE station_id = "BWI" -> << 391754, -766683 >>
      [] station_id = "DCA" -> << 388512, -770402 >>
      [] station_id = "IAD" -> << 389531, -774565 >>
      [] OTHER -> << 390000, -770000 >>

\* VirginiaMesonetFetcher._get_station_coordinates
VaStationCoordinates(station_id) ==
    CASE station_id = "DCA" -> << 388512, -770402 >>
      [] station_id = "IAD" -> << 389531, -774565 >>
      [] station_id = "RIC" -> << 375058, -773197 >>
      [] OTHER -> << 375000, -785000 >>

StationCoordinates(network, station_id) ==
    IF network = "MD" THEN MdStationCoordinates(station_id)
    ELSE VaStationCoordinates(station_id)

\* The altimeter setting taken before the sea-level pressure.
IowaPressureAltiFirst(row) ==
    IF Usable(row, "alti") THEN AltiToHpa(row.alti)
    ELSE IF Usable(row, "mslp") THEN row.mslp
    ELSE 101325

\* pressure = 1013.25; if mslp ...: float(row['mslp']); elif alti ...:
\* float(row['alti']) * 33.863886
IowaPressure(row) ==
    IF Usable(row, "mslp") THEN row.mslp
    ELSE IF Usable(row, "alti") THEN AltiToHpa(row.alti)
    ELSE 101325

\* One row of _process_iowa_mesonet_data (the Maryland and the Virginia
\* processor differ in the name prefix and the lookup table only).
ProcessIowaRow(network, row) ==
    LET station_id == row.station
        hasLatLon  == "lat" \in DOMAIN row /\ "lon" \in DOMAIN row
        raises     == hasLatLon /\ (   (notna(row.lat) /\ FloatRaises(row.lat))
                                    \/ (notna(row.lon) /\ FloatRaises(row.lon)))
        lookup     == StationCoordinates(network, station_id)
        latitude   == IF hasLatLon
                      THEN (IF notna(row.lat) THEN row.lat ELSE None)
                      ELSE lookup[1]
        longitude  == IF hasLatLon
                      THEN (IF notna(row.lon) THEN row.lon ELSE None)
                      ELSE lookup[2]
        falsy(v)   == v = None \/ v = 0
        temp_f     == IF Usable(row, "tmpf") THEN row.tmpf ELSE 7000
        pressure   == IowaPressure(row)
        wind_direction == IF Usable(row, "drct") THEN row.drct ELSE None
        wind_speed == IF Usable(row, "sknt") THEN KnotsToMph(row.sknt) ELSE None
        humidity   == IF Usable(row, "relh") THEN row.relh ELSE None
    IN  IF raises THEN Raised
        ELSE IF falsy(latitude) \/ falsy(longitude) THEN Skipped
        ELSE Appended(
             [public_name             |-> << network, "ASOS", station_id >>,
              station_id              |-> station_id,
              Air_Temperature_2m_Avg  |-> temp_f,
              MSLP_Avg                |-> pressure,
              RelativeHumidity_2m_Avg |-> IF humidity # None THEN humidity ELSE 6500,
              WindSpeed_10m_Avg       |-> IF wind_speed # None THEN wind_speed ELSE 500,
              WindDirection_10m_Avg   |-> IF wind_direction # None
                                          THEN wind_direction ELSE 27000,
              latitude                |-> latitude,
              longitude               |-> longitude,
              city                    |-> << network, station_id >>,
              timestamp               |-> IF "valid" \in DOMAIN row
                                          THEN row.valid ELSE Unknown])

\* One row of convert_mesonet_to_weather_data (row of the processed DataFrame).
Get(row, key, default) == IF key \in DOMAIN row THEN row[key] ELSE default

ConvertMesonetRow(row) ==
    LET public_name == Get(row, "public_name", << "Unknown Station" >>)
    IN  Appended(
        [name           |-> public_name,
         lat            |-> Get(row, "latitude", 0),
         lon            |-> Get(row, "longitude", 0),
         temp_f         |-> Get(row, "Air_Temperature_2m_Avg", 7000),
         pressure       |-> Get(row, "MSLP_Avg", 101325),
         state          |-> IF Len(public_name) >= 2 /\ public_name[1] = "MD"
                               /\ public_name[2] = "ASOS" THEN "MD"
                            ELSE IF Len(public_name) >= 2 /\ public_name[1] = "VA"
                               /\ public_name[2] = "ASOS" THEN "VA"
                            ELSE "PA",
         source         |-> "Iowa Environmental Mesonet",
         station_id     |-> Get(row, "station_id", ""),
         wind_direction |-> Get(row, "WindDirection_10m_Avg", None),
         wind_speed     |-> Get(row, "WindSpeed_10m_Avg", None),
         humidity       |-> Get(row, "RelativeHumidity_2m_Avg", None),
         city           |-> Get(row, "city", << >>),
         timestamp      |-> Get(row, "timestamp", Unknown)])

\* ASOSFetcher._get_state_from_coords (comparisons with NaN are false)
GetStateFromCoords(lat, lon) ==
    LET between(lo, v, hi) == v # NaN /\ lo <= v /\ v <= hi
    IN  IF between(365000, lat, 397000) /\ between(-837000, lon, -750000)
        THEN (IF lat > 390000
              THEN (IF lon > -795000 THEN "MD" ELSE "PA")
              ELSE "VA")
        ELSE IF between(390000, lat, 420000) /\ between(-805000, lon, -747000)
        THEN "PA"
        ELSE IF between(379000, lat, 395000) /\ between(-795000, lon, -752000)
        THEN "MD"
        ELSE IF between(365000, lat, 395000) /\ between(-837000, lon, -752000)
        THEN "VA"
        ELSE "Unknown"

\* One row of ASOSFetcher._process_asos_data (the columns station, lon, lat
\* and tmpf are there, or the whole file is refused).
ProcessAsosRow(row) ==
    LET station_id == row.station
        raises     == FloatRaises(row.lat) \/ FloatRaises(row.lon)
                      \/ (notna(row.tmpf) /\ FloatRaises(row.tmpf))
        temp_f     == IF notna(row.tmpf) THEN row.tmpf ELSE 7000
        pressure   == IF Usable(row, "mslp") THEN row.mslp ELSE 101325
        wind_direction == IF Usable(row, "drct") THEN row.drct ELSE None
        wind_speed == IF Usable(row, "sped") THEN row.sped ELSE None
        elevation  == IF Usable(row, "elevation") THEN row.elevation ELSE None
    IN  IF raises THEN Raised
        ELSE Appended(
             [name           |-> << "ASOS", station_id >>,
              station_id     |-> station_id,
              lat            |-> row.lat,
              lon            |-> row.lon,
              temp_f         |-> Round1(temp_f),
              pressure       |-> pressure,
              wind_direction |-> wind_direction,
              wind_speed     |-> wind_speed,
              elevation      |-> elevation,
              state          |-> GetStateFromCoords(row.lat, row.lon),
              source         |-> "ASOS",
              timestamp      |-> IF "valid" \in DOMAIN row
                                 THEN row.valid ELSE Unknown])

\* One station of convert_asos_to_weather_data.
ConvertAsosStation(station) ==
    IF ~({"name", "lat", "lon", "temp_f", "pressure", "state", "source"}
            \subseteq DOMAIN station)
    THEN Raised
    ELSE Appended(
         [name           |-> station.name,
          lat            |-> station.lat,
          lon            |-> station.lon,
          temp_f         |-> station.temp_f,
          pressure       |-> station.pressure,
          state          |-> station.state,
          source         |-> station.source,
          station_id     |-> Get(station, "station_id", ""),
          wind_direction |-> Get(station, "wind_direction", None),
          wind_speed     |-> Get(station, "wind_speed", None),
          elevation      |-> Get(station, "elevation", None),
          timestamp      |-> Get(station, "timestamp", Unknown)])

\* One row of the Pennsylvania loop of generate_weather_map (app.py).
AppPennsylvaniaRow(row) ==
    LET t    == Get(row, "t", None)
        mslp == Get(row, "mslp", None)
        lat  == Get(row, "latitude", None)
        lon  == Get(row, "longitude", None)
    IN  IF ~(notna(t) /\ notna(mslp)) THEN Skipped
        ELSE IF FloatRaises(lat) \/ FloatRaises(lon)
                \/ FloatRaises(t) \/ FloatRaises(mslp)
        THEN Raised
        ELSE Appended(
             [name     |-> Get(row, "name", << "Unknown" >>),
              lat      |-> lat,
              lon      |-> lon,
              temp_f   |-> t,
              pressure |-> mslp,
              source   |-> "PA Keystone"])

\* One row of load_pennsylvania_data_from_file (the latitude and longitude
\* columns are there, and a temperature or a pressure column).
LoadPennsylvaniaRow(row) ==
    LET lat      == row.latitude
        lon      == row.longitude
        hasTemp  == "t" \in DOMAIN row /\ notna(row.t)
        hasPres  == "mslp" \in DOMAIN row /\ notna(row.mslp)
        raises   == FloatRaises(lat) \/ FloatRaises(lon)
                    \/ (hasTemp /\ FloatRaises(row.t))
                    \/ (hasPres /\ FloatRaises(row.mslp))
        temp_f   == IF hasTemp
                    THEN (IF row.t < 4000 THEN CtoF(row.t) ELSE row.t)
                    ELSE None
        pressure == IF hasPres THEN row.mslp ELSE None
        truthy(v) == v # 0
    IN  IF raises THEN Raised
        ELSE IF truthy(lat) /\ truthy(lon) /\ (temp_f # None \/ pressure # None)
        THEN Appended(
             [name     |-> Get(row, "name", << "PA Station" >>),
              lat      |-> lat,
              lon      |-> lon,
              temp_f   |-> IF temp_f # None THEN temp_f ELSE 5000,
              pressure |-> IF pressure # None THEN pressure ELSE 101325,
              state    |-> "PA",
              source   |-> "Pennsylvania Keystone Mesonet"])
        ELSE Skipped

\* get_maryland_coordinates (main.py)
get_maryland_coordinates(station_name) ==
    CASE station_name = << "Baltimore" >>    -> << 393352, -765909 >>
      [] station_name = << "College Park" >> -> << 390100, -769411 >>
      [] OTHER -> << 390000, -770000 >>

\* One row of load_maryland_data_from_file (the name, temperature and
\* pressure columns are there).
LoadMarylandRow(row) ==
    LET temp_c   == row.t
        raises   == (notna(temp_c) /\ temp_c = M)
                    \/ (notna(row.mslp) /\ FloatRaises(row.mslp))
        temp_f   == IF notna(temp_c)
                    THEN (IF temp_c < 5000 THEN CtoF(temp_c) ELSE temp_c)
                    ELSE 7000
        pressure == IF notna(row.mslp) THEN row.mslp ELSE 101325
        hasCoord == "latitude" \in DOMAIN row /\ "longitude" \in DOMAIN row
                    /\ notna(row.latitude) /\ notna(row.longitude)
        lookup   == get_maryland_coordinates(row.name)
    IN  IF raises \/ (hasCoord /\ (FloatRaises(row.latitude)
                                   \/ FloatRaises(row.longitude)))
        THEN Raised
        ELSE Appended(
             [name     |-> row.name,
              lat      |-> IF hasCoord THEN row.latitude ELSE lookup[1],
              lon      |-> IF hasCoord THEN row.longitude ELSE lookup[2],
              temp_f   |-> Round1(temp_f),
              pressure |-> pressure,
              state    |-> "MD",
              source   |-> "Maryland Mesonet"])

\* maryland_locations.get(x, (39.0, -77.0)) of _process_maryland_data
maryland_locations(public_name) ==
    CASE public_name = << "Baltimore" >>    -> << 393352, -765909 >>
      [] public_name = << "College Park" >> -> << 390100, -769411 >>
      [] OTHER -> << 390000, -770000 >>

\* series.fillna(default_val): NaN and None replaced, text kept.
fillna(v, default_val) == IF notna(v) THEN v ELSE default_val

\* MesonetFetcher._process_maryland_data seen on one row of a frame whose
\* columns are name, temp, mslp, humidity, wind_speed, wind_direction and
\* timestamp, with or without latitude and longitude: the columns renamed,
\* the coordinates looked up when a coordinate column is absent, and every
\* NaN of a required column replaced by its default.  No fetcher calls it.
ProcessMarylandFrameRow(row) ==
    LET hasLatLon == "latitude" \in DOMAIN row /\ "longitude" \in DOMAIN row
        lookup    == maryland_locations(row.name)
    IN  Appended(
        [public_name             |-> row.name,
         Air_Temperature_2m_Avg  |-> fillna(row.temp, 1000),
         MSLP_Avg                |-> fillna(row.mslp, 101325),
         RelativeHumidity_2m_Avg |-> fillna(row.humidity, 6500),
         WindSpeed_10m_Avg       |-> fillna(row.wind_speed, 500),
         WindDirection_10m_Avg   |-> fillna(row.wind_direction, 27000),
         latitude                |-> IF hasLatLon THEN fillna(row.latitude, 390000)
                                     ELSE lookup[1],
         longitude               |-> IF hasLatLon THEN fillna(row.longitude, -770000)
                                     ELSE lookup[2],
         city                    |-> row.name,
         timestamp               |-> fillna(row.timestamp, Unknown)])

\* _process_maryland_data, then convert_mesonet_to_weather_data.
MarylandFramePipelineRow(row) ==
    ConvertMesonetRow(ProcessMarylandFrameRow(row).record)

\* _process_iowa_mesonet_data, then convert_mesonet_to_weather_data.
IowaPipelineRow(network, row) ==
    LET processed == ProcessIowaRow(network, row)
    IN  IF processed.appended THEN ConvertMesonetRow(processed.record)
        ELSE processed

\* _process_asos_data, then convert_asos_to_weather_data.
AsosPipelineRow(row) ==
    LET processed == ProcessAsosRow(row)
    IN  IF processed.appended THEN ConvertAsosStation(processed.record)
        ELSE processed

SeqsUpTo(S, n) == UNION { [1..k -> S] : k \in 0..n }

\* The elements of seq at the positions in indices, in order (from i on).
RECURSIVE SubSeqAt(_, _, _)
SubSeqAt(seq, indices, i) ==
    IF i > Len(seq) THEN << >>
    ELSE (IF i \in indices THEN << seq[i] >> ELSE << >>)
         \o SubSeqAt(seq, indices, i + 1)

\* A normalizer over a whole batch: the appended records, in row order.
RECURSIVE AppendedRecords(_, _)
AppendedRecords(outcomes, i) ==
    IF i > Len(outcomes) THEN << >>
    ELSE (IF outcomes[i].appended THEN << outcomes[i].record >> ELSE << >>)
         \o AppendedRecords(outcomes, i + 1)

\* The station ids of the model in the order Python sorts them as strings.
StationIds == << "BWI", "DCA", "IAD", "RIC", "XXX" >>

\* df.sort_values(['station', 'valid']).drop_duplicates(subset=['station'],
\* keep='last'): one row per station, its latest, in station order (from
\* the k-th station id on).
RECURSIVE LatestPerStation(_, _)
LatestPerStation(df, k) ==
    IF k > Len(StationIds) THEN << >>
    ELSE LET rows == { i \in 1..Len(df) : df[i].station = StationIds[k] }
             last == CHOOSE i \in rows : \A j \in rows :
                         \/ df[j].valid < df[i].valid
                         \/ df[j].valid = df[i].valid /\ j <= i
         IN  (IF rows = {} THEN << >> ELSE << df[last] >>)
             \o LatestPerStation(df, k + 1)

\* df.drop_duplicates(subset=['station'], keep='last'): the last row of
\* every station, in file order.
LastPerStation(df) ==
    SubSeqAt(df, { i \in 1..Len(df) :
                      \A j \in (i + 1)..Len(df) : df[j].station # df[i].station }, 1)

\* The per-row outcomes of the Iowa and of the ASOS processor, in the order
\* the loop visits the rows.
IowaOutcomes(network, df) ==
    LET unique_stations == LatestPerStation(df, 1)
    IN  [k \in 1..Len(unique_stations) |-> ProcessIowaRow(network, unique_stations[k])]

AsosOutcomes(df) ==
    LET unique_stations == LastPerStation(df)
    IN  [k \in 1..Len(unique_stations) |-> ProcessAsosRow(unique_stations[k])]

process_iowa_mesonet_data(network, df) ==
    AppendedRecords(IowaOutcomes(network, df), 1)

process_asos_data(df) == AppendedRecords(AsosOutcomes(df), 1)

load_maryland_data_from_file(rows) ==
    AppendedRecords([k \in 1..Len(rows) |-> LoadMarylandRow(rows[k])], 1)

convert_mesonet_to_weather_data(mesonet_df) ==
    AppendedRecords([k \in 1..Len(mesonet_df) |-> ConvertMesonetRow(mesonet_df[k])], 1)

convert_asos_to_weather_data(asos_data) ==
    AppendedRecords([k \in 1..Len(asos_data) |-> ConvertAsosStation(asos_data[k])], 1)

load_pennsylvania_data_from_file(rows) ==
    AppendedRecords([k \in 1..Len(rows) |-> LoadPennsylvaniaRow(rows[k])], 1)

\* The Pennsylvania loop of generate_weather_map (app.py).
AppPennsylvaniaLoop(rows) ==
    AppendedRecords([k \in 1..Len(rows) |-> AppPennsylvaniaRow(rows[k])], 1)

-----------------------------------------------------------------------------
(* create_combined_weather_map_centered_rockville (main.py).                 *)
(* The builder returns None for an empty list, raises when the marker loop   *)
(* raises (nothing outside the contour block is caught), and otherwise       *)
(* returns the map: its station markers and whether the contour overlay was  *)
(* added.                                                                    *)

GridSize == 80

GridMargin == 5000

MinOf(S) == CHOOSE x \in S : \A y \in S : x <= y

MaxOf(S) == CHOOSE x \in S : \A y \in S : x >= y

\* Twice the signed area of the triangle a, b, c.
Cross(a, b, c) ==
    (b.lon - a.lon) * (c.lat - a.lat) - (b.lat - a.lat) * (c.lon - a.lon)

AllCollinear(weather_data) ==
    \A i, j, k \in 1..Len(weather_data) :
        Cross(weather_data[i], weather_data[j], weather_data[k]) = 0

\* Some node of the 80 x 80 grid over the padded bounding box lies in the
\* convex hull of the stations, where linear griddata gives a finite value
\* (outside the hull it gives fill_value = NaN).  Node (i, j) is at
\* lat_min + i * (lat_max - lat_min) / 79, lon_min + j * (lon_max - lon_min) / 79;
\* every term below is 79 times the quantity it stands for.
GridHasValidNode(weather_data) ==
    LET n       == Len(weather_data)
        lats    == { weather_data[k].lat : k \in 1..n }
        lons    == { weather_data[k].lon : k \in 1..n }
        lat_min == MinOf(lats) - GridMargin
        lat_max == MaxOf(lats) + GridMargin
        lon_min == MinOf(lons) - GridMargin
        lon_max == MaxOf(lons) + GridMargin
        steps   == GridSize - 1
        dy(u, i) == steps * (lat_min - u.lat) + i * (lat_max - lat_min)
        dx(u, j) == steps * (lon_min - u.lon) + j * (lon_max - lon_min)
        side(u, v, i, j) ==
            (v.lon - u.lon) * dy(u, i) - (v.lat - u.lat) * dx(u, j)
        inside(a, b, c, i, j) ==
            \/ side(a, b, i, j) >= 0 /\ side(b, c, i, j) >= 0 /\ side(c, a, i, j) >= 0
            \/ side(a, b, i, j) <= 0 /\ side(b, c, i, j) <= 0 /\ side(c, a, i, j) <= 0
    IN  \E a, b, c \in 1..n :
            /\ a < b /\ b < c
            /\ Cross(weather_data[a], weather_data[b], weather_data[c]) # 0
            /\ \E i, j \in 0..steps :
                   inside(weather_data[a], weather_data[b], weather_data[c], i, j)

HasNaNCoordinate(weather_data) ==
    \E k \in 1..Len(weather_data) :
        weather_data[k].lat = NaN \/ weather_data[k].lon = NaN

\* The contour block (the try of lines 355-422): how it ends.
\*   "QhullError"  griddata cannot triangulate: fewer than 3 points, or all
\*                 of them on one line
\*   "ValueError"  a NaN coordinate, or no finite value on the grid
\*   "overlay"     the contour image was drawn and the ImageOverlay added
ContourBlock(weather_data) ==
    IF HasNaNCoordinate(weather_data) THEN "ValueError"
    ELSE IF Len(weather_data) < 3 THEN "QhullError"
    ELSE IF AllCollinear(weather_data) THEN "QhullError"
    ELSE IF ~GridHasValidNode(weather_data) THEN "ValueError"
    ELSE "overlay"

\* The keys the marker loop reads with station[...]: a missing one is a
\* KeyError.  folium refuses a NaN location with a ValueError.
MarkerKeys == {"name", "state", "pressure", "source", "lat", "lon"}

MarkerRaises(station) ==
    \/ ~(MarkerKeys \subseteq DOMAIN station)
    \/ station.lat = NaN \/ station.lon = NaN

Marker(station) == [name |-> station.name, lat |-> station.lat, lon |-> station.lon]

NoMap == [returned |-> "None", markers |-> << >>, overlay |-> FALSE]

RaisedMap == [returned |-> "raised", markers |-> << >>, overlay |-> FALSE]

create_combined_weather_map_centered_rockville(weather_data) ==
    IF weather_data = << >> THEN NoMap
    ELSE LET overlay == ContourBlock(weather_data) = "overlay"
         IN  IF \E k \in 1..Len(weather_data) : MarkerRaises(weather_data[k])
             THEN RaisedMap
             ELSE [returned |-> "map",
                   markers  |-> [k \in 1..Len(weather_data) |->
                                     Marker(weather_data[k])],
                   overlay  |-> overlay]

-----------------------------------------------------------------------------
(* Threads and processes.  The web service (app.py) runs its startup cycle   *)
(* on the main thread, then one scheduler thread and one thread per          *)
(* /api/update request; `python src/main.py` is a process of its own that    *)
(* writes the same artifact.                                                 *)

MaxUpdateThreads == 1

MaxCycles == 3

MainThread == << "main", 0 >>

SchedThread == << "sched", 0 >>

UpdateThreads == { << "update", i >> : i \in 1..MaxUpdateThreads }

CliProcess == << "cli", 0 >>

WebThreads == {MainThread, SchedThread} \cup UpdateThreads

Procs == WebThreads \cup {CliProcess}

\* The writer of a file that no cycle of this run wrote.
Nobody == << "nobody", 0 >>

NoFile == [exists |-> FALSE, complete |-> FALSE, writer |-> Nobody, content |-> NoMap]

NoTuple == << >>

NoAnswer == [status |-> 0, complete |-> FALSE]

\* The service before anything ran.
ServiceAtRest ==
    /\ pc = [p \in Procs |-> IF p = MainThread THEN "boot" ELSE "idle"]
    /\ ncycles = 0
    /\ fetched = [p \in Procs |-> NoTuple]
    /\ built = [p \in Procs |-> NoMap]
    /\ result = [p \in Procs |-> "none"]
    /\ tmpPa = [exists |-> FALSE, rows |-> << >>]
    /\ served = NoAnswer
    /\ status = "unasked"
    /\ serving = FALSE

serviceVars == << pc, ncycles, fetched, built, result, mapFile, tmpPa,
                  served, status, serving >>

NotRun == [ran |-> FALSE]

dedupVars == << dedup_in, dedup_out >>

normVars == << norm_in, norm_out >>

mapVars == << map_in, map_out >>

DedupAtRest == dedup_in = << >> /\ dedup_out = NotRun

NormAtRest == norm_in = << >> /\ norm_out = NotRun

MapAtRest == map_in = << >> /\ map_out = NotRun

\* The variables of the later studies, and these studies at rest.
batchVars == << batch_in, batch_out >>

levelVars == << level_in, level_out >>

gridVars == << grid_in, grid_out >>

studyVars == << batchVars, levelVars, gridVars, cycle >>

BatchAtRest == batch_in = << >> /\ batch_out = NotRun

LevelsAtRest == level_in = << >> /\ level_out = NotRun

GridAtRest == grid_in = << >> /\ grid_out = NotRun

CycleAtRest == cycle = [step |-> "rest"]

StudiesAtRest == BatchAtRest /\ LevelsAtRest /\ GridAtRest /\ CycleAtRest

-----------------------------------------------------------------------------
(* What the fetchers hand back.  A value is kept with its Python type,       *)
(* because the callers test hasattr(x, 'empty') and truthiness.              *)

DataFrame(rows) == [type |-> "DataFrame", rows |-> rows]

List(rows) == [type |-> "list", rows |-> rows]

\* A file name; `rows` records what the fetch wrote into that file.
Path(rows) == [type |-> "str", rows |-> rows]

NoneValue == [type |-> "NoneType", rows |-> << >>]

\* hasattr(x, 'empty') and not x.empty
HasData(x) == x.type = "DataFrame" /\ x.rows # << >>

\* `if x:` for a list, a file name or None
Truthy(x) ==
    \/ x.type = "str"
    \/ x.type = "list" /\ x.rows # << >>

RawVirginiaDCA ==
    [station |-> "DCA", valid |-> 1205, tmpf |-> 6810, mslp |-> 101570,
     alti |-> 2992, drct |-> 18000, sknt |-> 1000, relh |-> 5500]

RawMarylandBWI ==
    [station |-> "BWI", valid |-> 1205, lat |-> 391754, lon |-> -766683,
     tmpf |-> 6640, mslp |-> 101590, alti |-> 2993, drct |-> 20000,
     sknt |-> 800, relh |-> 6000]

RawAsosDCA ==
    [station |-> "DCA", valid |-> 1205, lat |-> 388512, lon |-> -770402,
     elevation |-> 1500, tmpf |-> 6814, drct |-> NaN, sped |-> 1200,
     mslp |-> 101570]

RawPennsylvania ==
    [name |-> << "PA", "Rock Springs" >>, latitude |-> 402000,
     longitude |-> -775000, t |-> 6000, mslp |-> 101800]

\* MarylandMesonetFetcher.fetch_current_data: the name of the CSV file it
\* wrote (the processed rows inside), or None when even the sample-data
\* fallback failed.  It never returns the DataFrame.
MarylandFetchOutcomes ==
    { Path(process_iowa_mesonet_data("MD", << RawMarylandBWI >>)),
      NoneValue }

\* PennsylvaniaMesonetFetcher.fetch_current_data: the name of the temp file
\* it wrote, or None on a request error.
PennsylvaniaFetchOutcomes ==
    { Path(<< RawPennsylvania >>), Path(<< >>), NoneValue }

\* VirginiaMesonetFetcher.fetch_current_data: the processed DataFrame, empty
\* on any error.
VirginiaFetchOutcomes ==
    { DataFrame(process_iowa_mesonet_data("VA", << RawVirginiaDCA >>)),
      DataFrame(<< >>) }

\* ASOSFetcher.fetch_current_data: the processed list, empty on any error.
AsosFetchOutcomes ==
    { List(process_asos_data(<< RawAsosDCA >>)), List(<< >>) }

\* fetch_all_mesonet_data returns (md_data, pa_file, va_data, asos_data).
fetch_all_mesonet_data(md_data, pa_file, va_data, asos_data) ==
    << md_data, pa_file, va_data, asos_data >>

SomeSourceHasStations(tuple) ==
    \E k \in 1..Len(tuple) : tuple[k].rows # << >>

Prefix(seq, n) == SubSeq(seq, 1, IF Len(seq) < n THEN Len(seq) ELSE n)

PennsylvaniaLimit == 20

AsosLimit == 15

\* How the part of a cycle between the fetch and the save ends:
\*   "save"    a map was built, the save comes next
\*   "nothing" no data or no map: the cycle ends without saving
\*   "raised"  an exception reached the cycle's except clause
\* cleanup: clean_temp_files is called on the way out (main.py only).
Outcome(ends, map, cleanup) == [ends |-> ends, m |-> map, cleanup |-> cleanup]

BuildOutcome(all_weather_data, cleanup) ==
    LET built_map == create_combined_weather_map_centered_rockville(all_weather_data)
    IN  IF built_map.returned = "raised" THEN Outcome("raised", NoMap, cleanup)
        ELSE IF built_map.returned = "None" THEN Outcome("nothing", NoMap, cleanup)
        ELSE Outcome("save", built_map, FALSE)

\* generate_weather_map (app.py), lines 33-116: the unpacking of the fetch
\* result into five names, the per-source conversions, the concatenation,
\* the dedup loop and the map builder.  `file` is temp_pennsylvania_data.csv
\* as it is on disk when the cycle reads it.
generate_weather_map_unpack == 5

\* generate_weather_map with the call of fetch_all_mesonet_data standing
\* before the try statement: the ValueError of the unpacking leaves the
\* function ("escaped") instead of reaching its except clause.
generate_weather_map_fetch_before_try(tuple, file) ==
    IF Len(tuple) # generate_weather_map_unpack
    THEN Outcome("escaped", NoMap, FALSE)
    ELSE Outcome("nothing", NoMap, FALSE)

generate_weather_map(tuple, file) ==
    IF Len(tuple) # generate_weather_map_unpack
    THEN Outcome("raised", NoMap, FALSE)
    ELSE LET md_data   == tuple[1]
             pa_file   == tuple[2]
             va_data   == tuple[3]
             ny_data   == tuple[4]
             asos_data == tuple[5]
             maryland_data ==
                 IF HasData(md_data) THEN convert_mesonet_to_weather_data(md_data.rows)
                 ELSE << >>
             pennsylvania_data ==
                 IF Truthy(pa_file) /\ file.exists
                 THEN AppPennsylvaniaLoop(Prefix(file.rows, PennsylvaniaLimit))
                 ELSE << >>
             virginia_data ==
                 IF HasData(va_data) THEN convert_mesonet_to_weather_data(va_data.rows)
                 ELSE << >>
             newyork_data ==
                 IF HasData(ny_data) THEN convert_mesonet_to_weather_data(ny_data.rows)
                 ELSE << >>
             asos_stations ==
                 IF Truthy(asos_data)
                 THEN convert_asos_to_weather_data(Prefix(asos_data.rows, AsosLimit))
                 ELSE << >>
             combined_data == Combine(maryland_data, pennsylvania_data,
                                      virginia_data, newyork_data, asos_stations)
             all_weather_data == Dedup(combined_data)
         IN  IF all_weather_data = << >> THEN Outcome("nothing", NoMap, FALSE)
             ELSE BuildOutcome(all_weather_data, FALSE)

\* main (main.py), lines 207-281: the same for the command-line run, which
\* unpacks four names and has no New York source.
main_unpack == 4

main(tuple, file) ==
    IF Len(tuple) # main_unpack
    THEN Outcome("raised", NoMap, TRUE)
    ELSE LET md_data   == tuple[1]
             pa_file   == tuple[2]
             va_data   == tuple[3]
             asos_data == tuple[4]
             maryland_data ==
                 IF HasData(md_data) THEN convert_mesonet_to_weather_data(md_data.rows)
                 ELSE << >>
             pennsylvania_data ==
                 IF Truthy(pa_file) /\ file.exists
                 THEN load_pennsylvania_data_from_file(file.rows)
                 ELSE << >>
             virginia_data ==
                 IF HasData(va_data) THEN convert_mesonet_to_weather_data(va_data.rows)
                 ELSE << >>
             asos_stations ==
                 IF Truthy(asos_data)
                 THEN convert_asos_to_weather_data(asos_data.rows)
                 ELSE << >>
             combined_data == Combine(maryland_data, pennsylvania_data,
                                      virginia_data, << >>, asos_stations)
             all_weather_data == Dedup(combined_data)
         IN  IF ~HasData(md_data) /\ ~Truthy(pa_file) /\ ~HasData(va_data)
                /\ ~Truthy(asos_data)
             THEN Outcome("nothing", NoMap, FALSE)
             ELSE IF combined_data = << >> THEN Outcome("nothing", NoMap, TRUE)
             ELSE BuildOutcome(all_weather_data, TRUE)

-----------------------------------------------------------------------------
(* The service: cycles of generate_weather_map on the threads of app.py and  *)
(* runs of main on the command line, all writing                             *)
(* maps/mesonet_combined_weather_map.html, and /map requests reading it.     *)
(*                                                                           *)
(* pc[p]: "boot" (main thread before the startup call), "idle",              *)
(* "fetching", "fetched", "mapped" (map built, save not begun), "saving"     *)
(* (file opened for writing, content not yet written), "cleanup",            *)
(* "returned" (startup call returned), "serve" (app.run).                    *)
(* result[p]: how the last cycle of p ended: "none", "saved",                *)
(* "nothing" (returned without a map), "failed" (exception before the       *)
(* save), "save_failed" (exception inside the save).  The locals of a cycle  *)
(* (fetched, built) are gone when it ends.                                   *)

Running(p) == pc[p] \in {"fetching", "fetched", "mapped", "saving", "cleanup"}

\* What an earlier run published: a marker-only map of one ASOS station.
OldArtifact ==
    [exists |-> TRUE, complete |-> TRUE, writer |-> Nobody,
     content |-> create_combined_weather_map_centered_rockville(
                     convert_asos_to_weather_data(process_asos_data(<< RawAsosDCA >>)))]

Init ==
    /\ ServiceAtRest
    /\ mapFile \in {NoFile, OldArtifact}
    /\ DedupAtRest /\ NormAtRest /\ MapAtRest /\ StudiesAtRest

\* A call of generate_weather_map or of main begins.  Nothing is tested
\* first: there is no lock and no flag.
BeginCycle(p) ==
    /\ ncycles < MaxCycles
    /\ ncycles' = ncycles + 1
    /\ pc' = [pc EXCEPT ![p] = "fetching"]
    /\ fetched' = [fetched EXCEPT ![p] = NoTuple]
    /\ built' = [built EXCEPT ![p] = NoMap]
    /\ result' = [result EXCEPT ![p] = "none"]
    /\ UNCHANGED << mapFile, tmpPa, served, serving, status, dedupVars, normVars, mapVars, studyVars >>

\* The cycle of p ends in the way `ends`; main first cleans up when
\* `cleanup` is set.
EndCycle(p, ends, cleanup) ==
    /\ pc' = [pc EXCEPT ![p] = IF cleanup THEN "cleanup"
                               ELSE IF p = MainThread THEN "returned"
                               ELSE "idle"]
    /\ result' = [result EXCEPT ![p] = ends]
    /\ fetched' = [fetched EXCEPT ![p] = NoTuple]
    /\ built' = [built EXCEPT ![p] = NoMap]

\* __main__: generate_weather_map() before anything else.
Startup ==
    /\ pc[MainThread] = "boot"
    /\ BeginCycle(MainThread)

\* __main__: the job is scheduled, the scheduler thread started, app.run.
AppRun ==
    /\ pc[MainThread] = "returned"
    /\ pc' = [pc EXCEPT ![MainThread] = "serve"]
    /\ serving' = TRUE
    /\ UNCHANGED << ncycles, fetched, built, result, mapFile, tmpPa, served,
                    status, dedupVars, normVars, mapVars, studyVars >>

\* update_maps_scheduled: schedule.run_pending() runs generate_map_wrapper.
ScheduledRun ==
    /\ serving
    /\ pc[SchedThread] = "idle"
    /\ BeginCycle(SchedThread)

\* api_update: a new thread runs generate_weather_map.
ApiUpdate(u) ==
    /\ serving
    /\ pc[u] = "idle"
    /\ BeginCycle(u)

\* `python src/main.py`, choice 1.
CliRun ==
    /\ pc[CliProcess] = "idle"
    /\ BeginCycle(CliProcess)

\* fetch_all_mesonet_data: the Pennsylvania fetcher writes its temp file in
\* the working directory, whichever cycle it runs for.
FetchAll(p) ==
    /\ pc[p] = "fetching"
    /\ \E md_data   \in MarylandFetchOutcomes,
          pa_file   \in PennsylvaniaFetchOutcomes,
          va_data   \in VirginiaFetchOutcomes,
          asos_data \in AsosFetchOutcomes :
            /\ fetched' = [fetched EXCEPT ![p] =
                   fetch_all_mesonet_data(md_data, pa_file, va_data, asos_data)]
            /\ tmpPa' = IF pa_file.type = "str"
                        THEN [exists |-> TRUE, rows |-> pa_file.rows]
                        ELSE tmpPa
    /\ pc' = [pc EXCEPT ![p] = "fetched"]
    /\ UNCHANGED << ncycles, built, result, mapFile, served, serving,
                    status, dedupVars, normVars, mapVars, studyVars >>

\* Everything between the fetch and the save.
Process(p) ==
    /\ pc[p] = "fetched"
    /\ LET out == IF p = CliProcess THEN main(fetched[p], tmpPa)
                  ELSE generate_weather_map(fetched[p], tmpPa)
           r   == IF out.ends = "raised" THEN "failed" ELSE "nothing"
       IN  IF out.ends = "save"
           THEN /\ built' = [built EXCEPT ![p] = out.m]
                /\ pc' = [pc EXCEPT ![p] = "mapped"]
                /\ UNCHANGED << fetched, result >>
           ELSE EndCycle(p, r, out.cleanup)
    /\ UNCHANGED << ncycles, mapFile, tmpPa, served, serving,
                    status, dedupVars, normVars, mapVars, studyVars >>

\* combined_map.save(map_file), first half: folium opens the target itself
\* for writing, which creates it or empties it.
SaveOpen(p) ==
    /\ pc[p] = "mapped"
    /\ mapFile' = [exists |-> TRUE, complete |-> FALSE, writer |-> p,
                   content |-> NoMap]
    /\ pc' = [pc EXCEPT ![p] = "saving"]
    /\ UNCHANGED << ncycles, fetched, built, result, tmpPa, served, serving,
                    status, dedupVars, normVars, mapVars, studyVars >>

\* combined_map.save(map_file), second half: the page is rendered, written
\* and the file closed.  main goes on to clean_temp_files.
SaveWrite(p) ==
    /\ pc[p] = "saving"
    /\ mapFile' = [exists |-> TRUE, complete |-> TRUE, writer |-> p,
                   content |-> built[p]]
    /\ EndCycle(p, "saved", p = CliProcess)
    /\ UNCHANGED << ncycles, tmpPa, served, serving,
                    status, dedupVars, normVars, mapVars, studyVars >>

\* combined_map.save(map_file) raises after the open (rendering error, disk
\* full): the except clause of the cycle runs, the file stays as it is.
SaveFail(p) ==
    /\ pc[p] = "saving"
    /\ EndCycle(p, "save_failed", p = CliProcess)
    /\ UNCHANGED << ncycles, mapFile, tmpPa, served, serving,
                    status, dedupVars, normVars, mapVars, studyVars >>

\* clean_temp_files (called by main only) removes the Pennsylvania temp file.
CleanTempFiles ==
    /\ pc[CliProcess] = "cleanup"
    /\ tmpPa' = [exists |-> FALSE, rows |-> << >>]
    /\ pc' = [pc EXCEPT ![CliProcess] = "idle"]
    /\ UNCHANGED << ncycles, fetched, built, result, mapFile, served, serving,
                    status, dedupVars, normVars, mapVars, studyVars >>

\* serve_map: send the file if it exists, else 503.
ServeMap ==
    /\ serving
    /\ served' = IF mapFile.exists
                 THEN [status |-> 200, complete |-> mapFile.complete]
                 ELSE [status |-> 503, complete |-> FALSE]
    /\ UNCHANGED << pc, ncycles, fetched, built, result, mapFile, tmpPa,
                    serving, status, dedupVars, normVars, mapVars, studyVars >>

\* api_status: "available" if the file exists, else "generating".
api_status ==
    /\ serving
    /\ status' = IF mapFile.exists THEN "available" ELSE "generating"
    /\ UNCHANGED << pc, ncycles, fetched, built, result, mapFile, tmpPa,
                    served, serving, dedupVars, normVars, mapVars, studyVars >>

Next ==
    \/ Startup
    \/ AppRun
    \/ ScheduledRun
    \/ \E u \in UpdateThreads : ApiUpdate(u)
    \/ CliRun
    \/ \E p \in Procs : FetchAll(p)
    \/ \E p \in Procs : Process(p)
    \/ \E p \in Procs : SaveOpen(p)
    \/ \E p \in Procs : SaveWrite(p)
    \/ \E p \in Procs : SaveFail(p)
    \/ CleanTempFiles
    \/ ServeMap
    \/ api_status

Spec == Init /\ [][Next]_vars

-----------------------------------------------------------------------------
(* Deduplication study: the concatenation and the dedup loop of              *)
(* generate_weather_map, applied to bounded per-source station lists.        *)

MaxPerSource == 2

SourceOrder == << "MD", "PA", "VA", "NY", "ASOS" >>

Station(name, lat, lon, source) ==
    [name |-> << source, name >>, lat |-> lat, lon |-> lon, source |-> source]

\* Stations a source may report.  A and B share the key (39.10, -76.60);
\* C has the key (39.12, -76.60); D is 0.0002 degree north of B and has the
\* key (39.11, -76.60); N is a Pennsylvania row whose latitude cell is blank.
SourcePool(source) ==
    CASE source = "MD"   -> { Station("A", 391001, -766002, "MD"),
                              Station("C", 391200, -766000, "MD") }
      [] source = "PA"   -> { Station("B", 391049, -766041, "PA"),
                              Station("N", NaN, -766002, "PA") }
      [] source = "VA"   -> { Station("A", 391001, -766002, "VA"),
                              Station("D", 391051, -766041, "VA") }
      [] source = "NY"   -> { Station("C", 391200, -766000, "NY") }
      [] source = "ASOS" -> { Station("B", 391049, -766041, "ASOS"),
                              Station("D", 391051, -766041, "ASOS") }

InitDedup ==
    /\ ServiceAtRest /\ mapFile = NoFile
    /\ NormAtRest /\ MapAtRest /\ StudiesAtRest
    /\ \E md    \in SeqsUpTo(SourcePool("MD"), MaxPerSource),
          pa    \in SeqsUpTo(SourcePool("PA"), MaxPerSource),
          va    \in SeqsUpTo(SourcePool("VA"), MaxPerSource),
          ny    \in SeqsUpTo(SourcePool("NY"), MaxPerSource),
          asos  \in SeqsUpTo(SourcePool("ASOS"), MaxPerSource) :
              dedup_in = << md, pa, va, ny, asos >>
    /\ dedup_out = NotRun

RunDedup ==
    /\ ~dedup_out.ran
    /\ LET combined_data == Combine(dedup_in[1], dedup_in[2], dedup_in[3],
                                    dedup_in[4], dedup_in[5])
       IN  dedup_out' = [ran              |-> TRUE,
                         combined_data    |-> combined_data,
                         all_weather_data |-> Dedup(combined_data)]
    /\ UNCHANGED << serviceVars, dedup_in, normVars, mapVars, studyVars >>

NextDedup == RunDedup

SpecDedup == InitDedup /\ [][NextDedup]_vars

-----------------------------------------------------------------------------
(* Normalizer study: every normalizer of the repository applied to one raw   *)
(* row drawn from the cells its source can deliver.                          *)

\* Rows of the Iowa Mesonet CSV.  The Maryland request asks for latlon=yes,
\* the Virginia request for latlon=no, so only Maryland rows have lat/lon.
IowaRowsMD ==
    [station : {"DCA", "XXX"}, valid : {1205},
     lat : {NaN, 0, 388512}, lon : {NaN, -770402},
     tmpf : {M, 6810}, mslp : {M, NaN, 101570}, alti : {M, 2992},
     drct : {M, 18000}, sknt : {M, 1000}, relh : {M, 5500}]

IowaRowsVA ==
    [station : {"DCA", "XXX"}, valid : {1205},
     tmpf : {M, 6810}, mslp : {M, NaN, 101570}, alti : {M, 2992},
     drct : {M, 18000}, sknt : {M, 1000}, relh : {M, 5500}]

\* Rows of asos.csv: station,valid,lon,lat,elevation,tmpf,drct,sped,mslp
AsosRows ==
    [station : {"DCA"}, valid : {1205},
     lat : {NaN, M, 388512}, lon : {-770402}, elevation : {NaN, 1500},
     tmpf : {NaN, 6814}, drct : {NaN, M, 18000}, sped : {NaN, 1200},
     mslp : {M, 101570}]

\* Rows of the Pennsylvania Keystone Mesonet CSV.
PennsylvaniaRows ==
    [name : {<< "PA", "Rock Springs" >>},
     latitude : {NaN, 0, 402000}, longitude : {NaN, -775000},
     t : {NaN, 1500, 4500, 4990, 5000, 6000}, mslp : {NaN, 101800}]

\* Rows of the Maryland Mesonet CSV, with and without coordinate columns.
MarylandRows ==
    [name : {<< "Baltimore" >>, << "Nowhere" >>},
     t : {NaN, M, 2000, 4990, 5000}, mslp : {NaN, 101900}]
    \cup
    [name : {<< "Baltimore" >>},
     t : {2000}, mslp : {101900},
     latitude : {NaN, 393352}, longitude : {-765909}]

\* Rows of a Maryland frame as _process_maryland_data takes it.
MarylandFrameRows ==
    [name : {<< "Baltimore" >>, << "Nowhere" >>},
     temp : {NaN, 2000}, mslp : {NaN, 101900}, humidity : {NaN, 5500},
     wind_speed : {NaN}, wind_direction : {18000}, timestamp : {1205}]
    \cup
    [name : {<< "Baltimore" >>},
     temp : {NaN, 2000}, mslp : {NaN, 101900}, humidity : {5500},
     wind_speed : {300}, wind_direction : {18000}, timestamp : {1205},
     latitude : {NaN, 393352}, longitude : {-765909}]

Normalizers ==
    {"iowa_md", "iowa_va", "asos", "app_pa", "load_pa", "load_md", "md_frame"}

RowsOf(normalizer) ==
    CASE normalizer = "iowa_md" -> IowaRowsMD
      [] normalizer = "iowa_va" -> IowaRowsVA
      [] normalizer = "asos"    -> AsosRows
      [] normalizer = "app_pa"  -> PennsylvaniaRows
      [] normalizer = "load_pa" -> PennsylvaniaRows
      [] normalizer = "load_md" -> MarylandRows
      [] normalizer = "md_frame" -> MarylandFrameRows

InitNormalize ==
    /\ ServiceAtRest /\ mapFile = NoFile
    /\ DedupAtRest /\ MapAtRest /\ StudiesAtRest
    /\ \E normalizer \in Normalizers : \E row \in RowsOf(normalizer) :
           norm_in = [normalizer |-> normalizer, row |-> row]
    /\ norm_out = NotRun

Normalized(outcome) ==
    /\ ~norm_out.ran
    /\ norm_out' = [ran |-> TRUE, outcome |-> outcome]
    /\ UNCHANGED << serviceVars, dedupVars, norm_in, mapVars, studyVars >>

NormalizeIowaMaryland ==
    /\ norm_in.normalizer = "iowa_md"
    /\ Normalized(IowaPipelineRow("MD", norm_in.row))

NormalizeIowaVirginia ==
    /\ norm_in.normalizer = "iowa_va"
    /\ Normalized(IowaPipelineRow("VA", norm_in.row))

NormalizeAsos ==
    /\ norm_in.normalizer = "asos"
    /\ Normalized(AsosPipelineRow(norm_in.row))

NormalizeAppPennsylvania ==
    /\ norm_in.normalizer = "app_pa"
    /\ Normalized(AppPennsylvaniaRow(norm_in.row))

NormalizeLoadPennsylvania ==
    /\ norm_in.normalizer = "load_pa"
    /\ Normalized(LoadPennsylvaniaRow(norm_in.row))

NormalizeLoadMaryland ==
    /\ norm_in.normalizer = "load_md"
    /\ Normalized(LoadMarylandRow(norm_in.row))

NormalizeMarylandFrame ==
    /\ norm_in.normalizer = "md_frame"
    /\ Normalized(MarylandFramePipelineRow(norm_in.row))

NextNormalize ==
    \/ NormalizeIowaMaryland
    \/ NormalizeIowaVirginia
    \/ NormalizeAsos
    \/ NormalizeAppPennsylvania
    \/ NormalizeLoadPennsylvania
    \/ NormalizeLoadMaryland
    \/ NormalizeMarylandFrame

SpecNormalize == InitNormalize /\ [][NextNormalize]_vars

-----------------------------------------------------------------------------
(* Map-builder study: create_combined_weather_map_centered_rockville applied *)
(* to station lists built from the records the normalizers produce.          *)

WeatherStation(name, lat, lon, pressure) ==
    [name |-> << "ASOS", name >>, lat |-> lat, lon |-> lon, temp_f |-> 6810,
     pressure |-> pressure, state |-> "MD", source |-> "ASOS"]

\* S1..S4 are the corners of a 0.1 degree square; S5 lies on the line S1-S2;
\* S6 is 0.0001 degree off that line (S1, S2, S6 span a sliver that holds no
\* grid node); S7 is a Pennsylvania record as app.py builds it; S8 is a
\* Pennsylvania record of load_pennsylvania_data_from_file whose latitude
\* cell was blank.
StationPool ==
    << WeatherStation("S1", 390000, -770000, 101000),
       WeatherStation("S2", 391000, -770000, 101200),
       WeatherStation("S3", 390000, -769000, 101400),
       WeatherStation("S4", 391000, -769000, 101600),
       WeatherStation("S5", 390500, -770000, 101300),
       WeatherStation("S6", 390500, -769999, 101300),
       AppPennsylvaniaRow([name |-> << "PA", "S7" >>, latitude |-> 390200,
                           longitude |-> -769500, t |-> 6000,
                           mslp |-> 101800]).record,
       LoadPennsylvaniaRow([name |-> << "PA", "S8" >>, latitude |-> NaN,
                            longitude |-> -769200, t |-> 6000,
                            mslp |-> 101800]).record >>

InitMap ==
    /\ ServiceAtRest /\ mapFile = NoFile
    /\ DedupAtRest /\ NormAtRest /\ StudiesAtRest
    /\ \E chosen \in SUBSET (1..Len(StationPool)) :
           map_in = SubSeqAt(StationPool, chosen, 1)
    /\ map_out = NotRun

BuildMap ==
    /\ ~map_out.ran
    /\ map_out' = [ran |-> TRUE,
                   m   |-> create_combined_weather_map_centered_rockville(map_in)]
    /\ UNCHANGED << serviceVars, dedupVars, normVars, map_in, studyVars >>

NextMap == BuildMap

SpecMap == InitMap /\ [][NextMap]_vars

-----------------------------------------------------------------------------
(* Batch study: every normalizer of the repository applied to a batch of     *)
(* rows, some of which it cannot normalize.                                  *)

MaxBatch == 3

\* Rows a batch may hold, per normalizer: two or three rows that normalize,
\* a row that is left out in silence and a row whose processing raises.
BatchRows(normalizer) ==
    LET iowa(station, lat) ==
            [station |-> station, valid |-> 1205, lat |-> lat, lon |-> -770402,
             tmpf |-> 6810, mslp |-> 101570, alti |-> 2992, drct |-> 18000,
             sknt |-> 1000, relh |-> 5500]
        iowa_va(station) ==
            [station |-> station, valid |-> 1205, tmpf |-> 6810, mslp |-> 101570,
             alti |-> 2992, drct |-> 18000, sknt |-> 1000, relh |-> 5500]
        asos(station, lat) ==
            [station |-> station, valid |-> 1205, lat |-> lat, lon |-> -770402,
             elevation |-> 1500, tmpf |-> 6814, drct |-> 18000, sped |-> 1200,
             mslp |-> 101570]
        pa(name, lat, t) ==
            [name |-> << "PA", name >>, latitude |-> lat, longitude |-> -775000,
             t |-> t, mslp |-> 101800]
        md(name, t) == [name |-> << name >>, t |-> t, mslp |-> 101900]
        frame(name, temp) ==
            [name |-> << name >>, temp |-> temp, mslp |-> 101900, humidity |-> 5500,
             wind_speed |-> 300, wind_direction |-> 18000, timestamp |-> 1205]
    IN  CASE normalizer = "iowa_md" ->
                 { iowa("IAD", 389531), iowa("DCA", 388512), iowa("BWI", NaN),
                   iowa("XXX", M) }
          [] normalizer = "iowa_va" ->
                 { iowa_va("RIC"), iowa_va("DCA"), iowa_va("IAD") }
          [] normalizer = "asos" ->
                 { asos("IAD", 389531), asos("DCA", 388512), asos("BWI", M) }
          [] normalizer = "app_pa" ->
                 { pa("P1", 402000, 6000), pa("P2", 403000, 6100),
                   pa("P3", 404000, NaN), pa("P4", M, 6200) }
          [] normalizer = "load_pa" ->
                 { pa("P1", 402000, 6000), pa("P2", 403000, 6100),
                   pa("P3", 0, 6000), pa("P4", M, 6200) }
          [] normalizer = "load_md" ->
                 { md("Baltimore", 2000), md("College Park", 2100),
                   md("Nowhere", M) }
          [] normalizer = "md_frame" ->
                 { frame("Baltimore", 2000), frame("College Park", NaN),
                   frame("Nowhere", 2100) }

InitBatch ==
    /\ ServiceAtRest /\ mapFile = NoFile
    /\ DedupAtRest /\ NormAtRest /\ MapAtRest /\ LevelsAtRest /\ GridAtRest
    /\ CycleAtRest
    /\ \E normalizer \in Normalizers :
           \E rows \in SeqsUpTo(BatchRows(normalizer), MaxBatch) :
               batch_in = [normalizer |-> normalizer, rows |-> rows]
    /\ batch_out = NotRun

\* The rows of a batch one by one through their normalizer, in file order.
PipelineRow(normalizer, row) ==
    CASE normalizer = "iowa_md" -> IowaPipelineRow("MD", row)
      [] normalizer = "iowa_va" -> IowaPipelineRow("VA", row)
      [] normalizer = "asos"    -> AsosPipelineRow(row)
      [] normalizer = "app_pa"  -> AppPennsylvaniaRow(row)
      [] normalizer = "load_pa" -> LoadPennsylvaniaRow(row)
      [] normalizer = "load_md" -> LoadMarylandRow(row)
      [] normalizer = "md_frame" -> MarylandFramePipelineRow(row)

\* print(f"Error processing ..."): one line for every row whose exception
\* the loop caught.  It is the only trace a row that was not normalized
\* leaves; no normalizer keeps a count.
ErrorLines(outcomes) == Cardinality({ k \in 1..Len(outcomes) : outcomes[k].raised })

NormalizedBatch(records, errors) ==
    /\ ~batch_out.ran
    /\ batch_out' = [ran |-> TRUE, records |-> records, errors |-> errors]
    /\ UNCHANGED << serviceVars, dedupVars, normVars, mapVars, batch_in, levelVars, gridVars, cycle >>

BatchIowaMaryland ==
    /\ batch_in.normalizer = "iowa_md"
    /\ NormalizedBatch(
           convert_mesonet_to_weather_data(process_iowa_mesonet_data("MD", batch_in.rows)),
           ErrorLines(IowaOutcomes("MD", batch_in.rows)))

BatchIowaVirginia ==
    /\ batch_in.normalizer = "iowa_va"
    /\ NormalizedBatch(
           convert_mesonet_to_weather_data(process_iowa_mesonet_data("VA", batch_in.rows)),
           ErrorLines(IowaOutcomes("VA", batch_in.rows)))

BatchAsos ==
    /\ batch_in.normalizer = "asos"
    /\ NormalizedBatch(
           convert_asos_to_weather_data(process_asos_data(batch_in.rows)),
           ErrorLines(AsosOutcomes(batch_in.rows)))

\* The except clause of the app.py loop prints nothing.
BatchAppPennsylvania ==
    /\ batch_in.normalizer = "app_pa"
    /\ NormalizedBatch(AppPennsylvaniaLoop(Prefix(batch_in.rows, PennsylvaniaLimit)), 0)

BatchLoadPennsylvania ==
    /\ batch_in.normalizer = "load_pa"
    /\ NormalizedBatch(
           load_pennsylvania_data_from_file(batch_in.rows),
           ErrorLines([k \in 1..Len(batch_in.rows) |-> LoadPennsylvaniaRow(batch_in.rows[k])]))

BatchLoadMaryland ==
    /\ batch_in.normalizer = "load_md"
    /\ NormalizedBatch(
           load_maryland_data_from_file(batch_in.rows),
           ErrorLines([k \in 1..Len(batch_in.rows) |-> LoadMarylandRow(batch_in.rows[k])]))

\* _process_maryland_data works on whole columns: no row is left out.
BatchMarylandFrame ==
    /\ batch_in.normalizer = "md_frame"
    /\ NormalizedBatch(
           convert_mesonet_to_weather_data(
               [k \in 1..Len(batch_in.rows) |->
                    ProcessMarylandFrameRow(batch_in.rows[k]).record]),
           0)

NextBatch ==
    \/ BatchIowaMaryland
    \/ BatchIowaVirginia
    \/ BatchAsos
    \/ BatchAppPennsylvania
    \/ BatchLoadPennsylvania
    \/ BatchLoadMaryland
    \/ BatchMarylandFrame

SpecBatch == InitBatch /\ [][NextBatch]_vars

-----------------------------------------------------------------------------
(* Level study: the contour levels each builder of the repository derives    *)
(* from the extremes of its data.  Data are in 1e-2 unit, levels in units.   *)

\* int(x) of Python for x = a / b: truncation toward zero.
TruncDiv(a, b) == IF a >= 0 THEN a \div b ELSE -((-a) \div b)

\* np.arange(start, stop, step) on integers: start, start + step, ... < stop.
arange(start, stop, step) ==
    LET n == IF stop > start THEN ((stop - start) + (step - 1)) \div step ELSE 0
    IN  [k \in 1..n |-> start + (k - 1) * step]

\* np.arange(pressure_min, pressure_max, 2): the stop value left out.
levels_combined_map_open(min, max) ==
    LET pressure_min == TruncDiv(min, 200) * 2
        pressure_max == TruncDiv(max, 200) * 2 + 2
    IN  arange(pressure_min, pressure_max, 2)

\* main.py: pressure_min = int(np.nanmin(pressures) / 2) * 2
\*          pressure_max = int(np.nanmax(pressures) / 2) * 2 + 2
\*          pressure_levels = np.arange(pressure_min, pressure_max + 1, 2)
levels_combined_map(min, max) ==
    LET pressure_min == TruncDiv(min, 200) * 2
        pressure_max == TruncDiv(max, 200) * 2 + 2
    IN  arange(pressure_min, pressure_max + 1, 2)

\* pressure_map.py: start_pressure = int((min_pressure - 15) / 5) * 5
\*                  end_pressure = int((max_pressure + 15) / 5 + 1) * 5
\*                  levels = np.arange(start_pressure, end_pressure + 1, 5)
levels_pressure_map(min, max) ==
    LET start_pressure == TruncDiv(min - 1500, 500) * 5
        end_pressure == TruncDiv((max + 1500) + 500, 500) * 5
    IN  arange(start_pressure, end_pressure + 1, 5)

\* map_helpers.py: np.arange(int(min(pressures)) - 5, int(max(pressures)) + 10, 5)
levels_map_helpers(min, max) ==
    arange(TruncDiv(min, 100) - 5, TruncDiv(max, 100) + 10, 5)

\* temperature_map.py: np.arange(int(min(temps)) - 5, int(max(temps)) + 10, 5)
levels_temperature_map(min, max) ==
    arange(TruncDiv(min, 100) - 5, TruncDiv(max, 100) + 10, 5)

\* contour_generator.py: np.arange(int(min(grid_values)), int(max(grid_values)), 1)
levels_contour_generator(min, max) ==
    arange(TruncDiv(min, 100), TruncDiv(max, 100), 1)

LevelBuilders ==
    { "combined_map", "pressure_map", "map_helpers", "temperature_map",
      "contour_generator" }

\* Extremes of the data: pressures in hPa (1008.30 ... 1020.00) for the
\* pressure builders; the two builders that take temperatures get values
\* below zero as well.
Pressures == { 100830, 101000, 101325, 101400, 101450, 101970, 102000 }

Temperatures == { -350, 3210 }

DataValues(builder) ==
    IF builder \in { "temperature_map", "contour_generator" }
    THEN Pressures \cup Temperatures
    ELSE Pressures

InitLevels ==
    /\ ServiceAtRest /\ mapFile = NoFile
    /\ DedupAtRest /\ NormAtRest /\ MapAtRest /\ BatchAtRest /\ GridAtRest
    /\ CycleAtRest
    /\ \E builder \in LevelBuilders :
           \E min \in DataValues(builder) :
               \E max \in DataValues(builder) :
                   /\ min <= max
                   /\ level_in = [builder |-> builder, min |-> min, max |-> max]
    /\ level_out = NotRun

BuiltLevels(levels) ==
    /\ ~level_out.ran
    /\ level_out' = [ran |-> TRUE, levels |-> levels]
    /\ UNCHANGED << serviceVars, dedupVars, normVars, mapVars, batchVars, level_in, gridVars, cycle >>

LevelsCombinedMap ==
    /\ level_in.builder = "combined_map"
    /\ BuiltLevels(levels_combined_map(level_in.min, level_in.max))

LevelsPressureMap ==
    /\ level_in.builder = "pressure_map"
    /\ BuiltLevels(levels_pressure_map(level_in.min, level_in.max))

LevelsMapHelpers ==
    /\ level_in.builder = "map_helpers"
    /\ BuiltLevels(levels_map_helpers(level_in.min, level_in.max))

LevelsTemperatureMap ==
    /\ level_in.builder = "temperature_map"
    /\ BuiltLevels(levels_temperature_map(level_in.min, level_in.max))

LevelsContourGenerator ==
    /\ level_in.builder = "contour_generator"
    /\ BuiltLevels(levels_contour_generator(level_in.min, level_in.max))

NextLevels ==
    \/ LevelsCombinedMap
    \/ LevelsPressureMap
    \/ LevelsMapHelpers
    \/ LevelsTemperatureMap
    \/ LevelsContourGenerator

SpecLevels == InitLevels /\ [][NextLevels]_vars

-----------------------------------------------------------------------------
(* Grid study: the interpolation of the station pressures onto the grid, in  *)
(* the combined map of main.py and in the continental overlay of             *)
(* pressure_map.py.                                                          *)

RECURSIVE GCD(_, _)
GCD(a, b) == IF b = 0 THEN a ELSE GCD(b, a % b)

\* np.linspace(lat_min, lat_max, rows) x np.linspace(lon_min, lon_max, cols):
\* node <<i, j>> is at lat_min + i * (lat_max - lat_min) / (rows - 1),
\*                     lon_min + j * (lon_max - lon_min) / (cols - 1).
GridNodes(grid) == (0..(grid.rows - 1)) \X (0..(grid.cols - 1))

\* The node lies in the convex hull of the points, which is the union of the
\* triangles they span.  Every term of side is (rows - 1) * (cols - 1) / g
\* times the quantity it stands for, g the common divisor of the two counts.
InHull(points, grid, node) ==
    LET sy == grid.rows - 1
        sx == grid.cols - 1
        g  == GCD(sy, sx)
        dy(u) == sy * (grid.lat_min - u.lat) + node[1] * (grid.lat_max - grid.lat_min)
        dx(u) == sx * (grid.lon_min - u.lon) + node[2] * (grid.lon_max - grid.lon_min)
        side(u, v) ==
            (v.lon - u.lon) * dy(u) * (sx \div g) - (v.lat - u.lat) * dx(u) * (sy \div g)
    IN  \E a, b, c \in 1..Len(points) :
            /\ a < b /\ b < c
            /\ Cross(points[a], points[b], points[c]) # 0
            /\ \/ /\ side(points[a], points[b]) >= 0
                  /\ side(points[b], points[c]) >= 0
                  /\ side(points[c], points[a]) >= 0
               \/ /\ side(points[a], points[b]) <= 0
                  /\ side(points[b], points[c]) <= 0
                  /\ side(points[c], points[a]) <= 0

\* A value griddata interpolated between the values of three stations: a
\* finite number between the least and the greatest of them.
Interpolated == -999005

\* griddata(points, values, grid, method='linear', fill_value=...): the
\* interpolated value at the nodes in the convex hull, fill_value elsewhere.
griddata_linear(points, grid, fill_value) ==
    [node \in GridNodes(grid) |->
        IF InHull(points, grid, node) THEN Interpolated ELSE fill_value]

RECURSIVE SumPressure(_, _)
SumPressure(points, k) ==
    IF k > Len(points) THEN 0 ELSE points[k].pressure + SumPressure(points, k + 1)

\* np.mean(pressures), to 1e-2 hPa.
MeanPressure(points) == SumPressure(points, 1) \div Len(points)

\* What the nodes of a grid hold: whether the node is in the hull of the
\* stations, and the value there.
GridValues(points, grid, values) ==
    { [in_hull |-> InHull(points, grid, node), value |-> values[node]] :
          node \in GridNodes(grid) }

\* main.py 355-380: the grid over the padded bounding box of the stations,
\* griddata with fill_value=np.nan, and no further fill.
CombinedMapGrid(weather_data) ==
    LET n    == Len(weather_data)
        lats == { weather_data[k].lat : k \in 1..n }
        lons == { weather_data[k].lon : k \in 1..n }
    IN  [lat_min |-> MinOf(lats) - GridMargin, lat_max |-> MaxOf(lats) + GridMargin,
         lon_min |-> MinOf(lons) - GridMargin, lon_max |-> MaxOf(lons) + GridMargin,
         rows |-> GridSize, cols |-> GridSize]

combined_map_interpolation(weather_data) ==
    LET outcome == ContourBlock(weather_data)
    IN  IF outcome # "overlay" THEN [outcome |-> outcome]
        ELSE LET grid == CombinedMapGrid(weather_data)
                 grid_pressure == griddata_linear(weather_data, grid, NaN)
             IN  [outcome |-> "overlay",
                  nodes |-> GridValues(weather_data, grid, grid_pressure)]

\* pressure_map.py 78-83: the grid over the continental United States, in
\* whole degrees: 24 N to 50 N in 120 rows, 125 W to 66 W in 160 columns.
ContinentalGrid ==
    [lat_min |-> 24, lat_max |-> 50, lon_min |-> -125, lon_max |-> -66,
     rows |-> 120, cols |-> 160]

\* pressure_map.py 66-98: fewer than four cities return no overlay; griddata
\* with fill_value=np.mean(pressures); the nodes still NaN after that are
\* given the value of the nearest city.  No node is NaN after a fill with the
\* mean of finite pressures, so the nearest-neighbour pass changes nothing.
create_pressure_contour_overlay(pressure_data) ==
    IF Len(pressure_data) < 4 THEN [outcome |-> "none"]
    ELSE IF AllCollinear(pressure_data) THEN [outcome |-> "QhullError"]
    ELSE LET grid_pressure ==
                 griddata_linear(pressure_data, ContinentalGrid,
                                 MeanPressure(pressure_data))
         IN  [outcome |-> "overlay",
              nodes |-> GridValues(pressure_data, ContinentalGrid, grid_pressure)]

\* Cities of pressure_map.py with the pressure the weather API reported,
\* coordinates in whole degrees.
City(name, lat, lon, pressure) ==
    [name |-> name, lat |-> lat, lon |-> lon, pressure |-> pressure]

CityPool ==
    << City("Seattle", 48, -122, 100800),
       City("Los Angeles", 34, -118, 101200),
       City("Denver", 40, -105, 101500),
       City("Miami", 26, -80, 101900),
       City("New York", 41, -74, 102300) >>

\* The stations of the combined map: S1 .. S6 of the pool of the map study.
GridStationPool == SubSeq(StationPool, 1, 6)

InitGrid ==
    /\ ServiceAtRest /\ mapFile = NoFile
    /\ DedupAtRest /\ NormAtRest /\ MapAtRest /\ BatchAtRest /\ LevelsAtRest
    /\ CycleAtRest
    /\ \/ \E chosen \in SUBSET (1..Len(GridStationPool)) :
              grid_in = [builder |-> "combined_map",
                         stations |-> SubSeqAt(GridStationPool, chosen, 1)]
       \/ \E chosen \in SUBSET (1..Len(CityPool)) :
              grid_in = [builder |-> "pressure_map",
                         stations |-> SubSeqAt(CityPool, chosen, 1)]
    /\ grid_out = NotRun

Gridded(interpolation) ==
    /\ ~grid_out.ran
    /\ grid_out' = [ran |-> TRUE, interpolation |-> interpolation]
    /\ UNCHANGED << serviceVars, dedupVars, normVars, mapVars, batchVars, levelVars,
                    grid_in, cycle >>

GridCombinedMap ==
    /\ grid_in.builder = "combined_map"
    /\ Gridded(combined_map_interpolation(grid_in.stations))

GridPressureMap ==
    /\ grid_in.builder = "pressure_map"
    /\ Gridded(create_pressure_contour_overlay(grid_in.stations))

NextGrid ==
    \/ GridCombinedMap
    \/ GridPressureMap

SpecGrid == InitGrid /\ [][NextGrid]_vars

-----------------------------------------------------------------------------
(* Cycle study: the steps of one cycle from the first request to the last    *)
(* conversion, one at a time, with the events they leave in a log.           *)

\* The order in which fetch_all_mesonet_data fetches, and the entry points
\* convert, the sources.
Sources == << "MD", "PA", "VA", "ASOS" >>

SourceIndex(source) == CHOOSE k \in 1..Len(Sources) : Sources[k] = source

\* The sources whose fetcher processes the rows of the response itself
\* (_process_iowa_mesonet_data, _process_asos_data) before it returns; the
\* Pennsylvania fetcher only writes the response to its temp file.
ProcessedInFetch == { "MD", "VA", "ASOS" }

\* What fetch_current_data of a source returns when no response arrived.
FetchFallback(source) ==
    CASE source = "MD"   -> NoneValue
      [] source = "PA"   -> NoneValue
      [] source = "VA"   -> DataFrame(<< >>)
      [] source = "ASOS" -> List(<< >>)

\* What it holds once the response has arrived and has been read.
RawPayload(source) ==
    CASE source = "MD"   -> Path(<< RawMarylandBWI >>)
      [] source = "PA"   -> Path(<< RawPennsylvania >>)
      [] source = "VA"   -> DataFrame(<< RawVirginiaDCA >>)
      [] source = "ASOS" -> List(<< RawAsosDCA >>)

\* The rows of the response processed inside the fetcher.
ProcessedPayload(source) ==
    CASE source = "MD"   -> Path(process_iowa_mesonet_data("MD", << RawMarylandBWI >>))
      [] source = "VA"   -> DataFrame(process_iowa_mesonet_data("VA", << RawVirginiaDCA >>))
      [] source = "ASOS" -> List(process_asos_data(<< RawAsosDCA >>))

\* The test main() makes before it converts or loads a source.
HasStations(source, value) ==
    IF source \in { "MD", "VA" } THEN HasData(value) ELSE Truthy(value)

\* The conversion main() applies to the value of a source.
Converted(source, value) ==
    CASE source = "MD"   -> convert_mesonet_to_weather_data(value.rows)
      [] source = "PA"   -> load_pennsylvania_data_from_file(value.rows)
      [] source = "VA"   -> convert_mesonet_to_weather_data(value.rows)
      [] source = "ASOS" -> convert_asos_to_weather_data(value.rows)

Event(what, source) == [what |-> what, source |-> source]

\* fetch_all_mesonet_data returning after the Pennsylvania fetch, the
\* Virginia and ASOS fetches not made.
AfterFetchReturnsEarly(source) ==
    IF source = "MD" THEN [step |-> "request", source |-> "PA"]
    ELSE [step |-> "unpack", source |-> source]

\* Where a cycle goes when the fetch of a source has returned: to the fetch
\* of the next source, and after the last of them to the return of
\* fetch_all_mesonet_data.
AfterFetch(source) ==
    IF SourceIndex(source) < Len(Sources)
    THEN [step |-> "request", source |-> Sources[SourceIndex(source) + 1]]
    ELSE [step |-> "unpack", source |-> source]

\* Where it goes when a source has been converted (or had nothing to
\* convert): to the next source.
AfterConvert(source) ==
    IF SourceIndex(source) = Len(Sources) THEN [step |-> "done", source |-> source]
    ELSE [step |-> "convert", source |-> Sources[SourceIndex(source) + 1]]

EntryPoints == { "app", "main" }

\* MarylandMesonetFetcher.md_stations
md_stations ==
    << "BWI", "DCA", "IAD", "ADW", "HGR", "SBY", "APG", "FDK", "GAI", "MTN",
       "ESN" >>

\* params[key] = value on a dict
SetItem(params, key, value) ==
    [k \in DOMAIN params \cup {key} |-> IF k = key THEN value ELSE params[k]]

\* for station in self.md_stations: params[f'station'] = station
RECURSIVE StationParamsLoop(_, _, _)
StationParamsLoop(params, stations, i) ==
    IF i > Len(stations) THEN params
    ELSE StationParamsLoop(SetItem(params, "station", stations[i]), stations, i + 1)

\* The params of the Maryland request as session.get receives them (the
\* keys that select rows and columns).
MarylandRequestParams ==
    StationParamsLoop([network |-> "MD_ASOS", data |-> "all", latlon |-> "yes",
                       missing |-> "M"],
                      md_stations, 1)

\* What a cycle logs when the request of a source is made: for Maryland the
\* params built for it.
RequestEvents(source) ==
    IF source = "MD"
    THEN << [what |-> "request", source |-> source,
             params |-> MarylandRequestParams] >>
    ELSE << >>

InitCycle ==
    /\ ServiceAtRest /\ mapFile = NoFile
    /\ DedupAtRest /\ NormAtRest /\ MapAtRest
    /\ BatchAtRest /\ LevelsAtRest /\ GridAtRest
    /\ \E entry \in EntryPoints :
           cycle = [step |-> "request", source |-> Sources[1], entry |-> entry,
                    data |-> [k \in 1..Len(Sources) |-> FetchFallback(Sources[k])],
                    stations |-> << >>, log |-> << >>]

CycleStep(at, data, stations, events) ==
    /\ cycle' = [step |-> at.step, source |-> at.source, entry |-> cycle.entry,
                 data |-> data, stations |-> stations,
                 log |-> cycle.log \o events]
    /\ UNCHANGED << serviceVars, dedupVars, normVars, mapVars, batchVars, levelVars,
                    gridVars >>

\* session.get / read_csv of the source's fetcher: the response arrives and
\* is read, or the request fails and the fetcher takes its except branch.
CycleRequest ==
    /\ cycle.step = "request"
    /\ \E arrived \in BOOLEAN :
           IF arrived
           THEN CycleStep([step |-> IF cycle.source \in ProcessedInFetch
                                    THEN "process" ELSE "return",
                           source |-> cycle.source],
                          [cycle.data EXCEPT ![SourceIndex(cycle.source)] =
                               RawPayload(cycle.source)],
                          cycle.stations,
                          RequestEvents(cycle.source)
                              \o << Event("payload", cycle.source) >>)
           ELSE CycleStep([step |-> "return", source |-> cycle.source],
                          cycle.data, cycle.stations,
                          RequestEvents(cycle.source)
                              \o << Event("failed", cycle.source) >>)

\* _process_iowa_mesonet_data / _process_asos_data, called by the fetcher on
\* the response it has just read.
CycleProcessRows ==
    /\ cycle.step = "process"
    /\ CycleStep([step |-> "return", source |-> cycle.source],
                 [cycle.data EXCEPT ![SourceIndex(cycle.source)] =
                      ProcessedPayload(cycle.source)],
                 cycle.stations,
                 << Event("normalize", cycle.source) >>)

\* fetch_current_data of the source returns.
CycleFetchReturns ==
    /\ cycle.step = "return"
    /\ CycleStep(AfterFetch(cycle.source), cycle.data, cycle.stations,
                 << Event("fetched", cycle.source) >>)

\* fetch_all_mesonet_data returns its four values, which main() unpacks into
\* four names and generate_weather_map into five: the second raises.
CycleUnpack ==
    /\ cycle.step = "unpack"
    /\ IF (IF cycle.entry = "app" THEN generate_weather_map_unpack ELSE main_unpack)
              = Len(fetch_all_mesonet_data(cycle.data[1], cycle.data[2],
                                           cycle.data[3], cycle.data[4]))
       THEN CycleStep([step |-> "convert", source |-> Sources[1]],
                      cycle.data, cycle.stations, << >>)
       ELSE CycleStep([step |-> "done", source |-> cycle.source],
                      cycle.data, cycle.stations,
                      << Event("raised", cycle.source) >>)

\* convert_mesonet_to_weather_data, load_pennsylvania_data_from_file or
\* convert_asos_to_weather_data on the value of the source, when it has any.
CycleConvert ==
    /\ cycle.step = "convert"
    /\ LET value == cycle.data[SourceIndex(cycle.source)]
       IN  IF HasStations(cycle.source, value)
           THEN CycleStep(AfterConvert(cycle.source), cycle.data,
                          cycle.stations \o Converted(cycle.source, value),
                          << Event("convert", cycle.source) >>)
           ELSE CycleStep(AfterConvert(cycle.source), cycle.data,
                          cycle.stations, << >>)

NextCycle ==
    \/ CycleRequest
    \/ CycleProcessRows
    \/ CycleFetchReturns
    \/ CycleUnpack
    \/ CycleConvert

SpecCycle == InitCycle /\ [][NextCycle]_vars

-----------------------------------------------------------------------------
(* Properties of the deduplication (checked under SpecDedup).  Keys are      *)
(* compared as the loop compares them: by KeyEq, under which a key with a    *)
(* NaN component is equal to no key.                                         *)

FirstOccurrences(combined_data) ==
    { i \in 1..Len(combined_data) :
          \A j \in 1..(i - 1) : ~KeyEq(location_key(combined_data[j]),
                                       location_key(combined_data[i])) }

SourceRank(source) == CHOOSE k \in 1..5 : SourceOrder[k] = source

Abs(x) == IF x < 0 THEN -x ELSE x

C6_FirstSeenWins ==
    dedup_out.ran =>
        LET input == dedup_out.combined_data
            out   == dedup_out.all_weather_data
        IN  /\ out = SubSeqAt(input, FirstOccurrences(input), 1)
            /\ \A j \in 1..Len(out) : \A k \in 1..5 :
                   \A i \in 1..Len(dedup_in[k]) :
                       KeyEq(location_key(dedup_in[k][i]), location_key(out[j]))
                           => SourceRank(out[j].source) <= k

\* C6 witness: a kept record whose key a later source reported too.
C6_Witness ==
    /\ dedup_out.ran
    /\ \E j \in 1..Len(dedup_out.all_weather_data) : \E k \in 1..5 :
           /\ SourceRank(dedup_out.all_weather_data[j].source) < k
           /\ \E i \in 1..Len(dedup_in[k]) :
                  KeyEq(location_key(dedup_in[k][i]),
                        location_key(dedup_out.all_weather_data[j]))

\* C7 (as claimed): two stations whose latitudes differ by less than 0.01
\* degree and whose longitudes differ by less than 0.01 degree get the same
\* key, so at most one of them is in the output.
C7_DuplicateRadius ==
    dedup_out.ran =>
        LET out == dedup_out.all_weather_data
        IN  \A i, j \in 1..Len(out) :
                /\ i # j
                /\ IsNumber(out[i].lat) /\ IsNumber(out[i].lon)
                /\ IsNumber(out[j].lat) /\ IsNumber(out[j].lon)
                /\ Abs(out[i].lat - out[j].lat) < 100
                /\ Abs(out[i].lon - out[j].lon) < 100
                => FALSE

-----------------------------------------------------------------------------
(* Properties of the service (checked under Spec).                           *)

\* C1 (as claimed): at most one cycle of generate_weather_map is running at
\* any time, whichever of the startup call, the scheduler thread and the
\* /api/update threads started it.
C1_AtMostOneCycleRunning ==
    Cardinality({ p \in WebThreads : Running(p) }) <= 1

\* C2 (as claimed): what GET /map sends is never a partially written file.
C2_MapNeverServesPartialFile ==
    served.status = 200 => served.complete

\* C3 (as claimed): a cycle that failed has not changed the artifact, so the
\* file on disk is never the unfinished write of a failed cycle.
C3_FailedCycleLeavesArtifact ==
    \A p \in Procs :
        result[p] \in {"failed", "save_failed"} =>
            ~(mapFile.exists /\ ~mapFile.complete /\ mapFile.writer = p)

\* C4 (as claimed): a cycle of generate_weather_map or a run of main whose
\* fetch brought stations from at least one source goes on from the fetch
\* to a built map and its save.
C4_RemainingSourcesPublished ==
    [][\A p \in Procs :
          (pc[p] = "fetched" /\ SomeSourceHasStations(fetched[p])
              /\ pc'[p] # "fetched") => pc'[p] = "mapped"]_vars

-----------------------------------------------------------------------------
(* Properties of the normalizers (checked under SpecNormalize).              *)

RequiredFields ==
    {"name", "lat", "lon", "temp_f", "pressure", "state", "source",
     "wind_speed", "wind_direction", "humidity", "elevation", "timestamp"}

NumericFields ==
    {"lat", "lon", "temp_f", "pressure", "wind_speed", "wind_direction",
     "humidity", "elevation"}

\* C8 (as claimed): every record a normalizer appends has every field that
\* downstream code reads, and none of its values is None.
C8_EveryFieldPresent ==
    (norm_out.ran /\ norm_out.outcome.appended) =>
        LET rec == norm_out.outcome.record
        IN  /\ RequiredFields \subseteq DOMAIN rec
            /\ \A f \in NumericFields \cap DOMAIN rec : rec[f] # None

-----------------------------------------------------------------------------
(* Properties of the map builder (checked under SpecMap).                    *)

\* C9 (as claimed): with fewer than 4 stations the builder adds no contour
\* overlay.
C9_FewerThanFourNoOverlay ==
    (map_out.ran /\ Len(map_in) < 4) => ~map_out.m.overlay

\* C10 (as claimed): when the contour block fails, the builder still returns
\* a map with exactly one marker per input station and no contour overlay.
C10_ContourFailureKeepsMarkers ==
    (map_out.ran /\ map_in # << >> /\ ContourBlock(map_in) # "overlay") =>
        /\ map_out.m.returned = "map"
        /\ Len(map_out.m.markers) = Len(map_in)
        /\ ~map_out.m.overlay

-----------------------------------------------------------------------------
(* Properties of the normalizers over a batch (checked under SpecBatch).     *)

\* The rows of the batch are of different stations, so none is dropped as an
\* older reading of a station.
DistinctRows(rows) == \A i, j \in 1..Len(rows) : i # j => rows[i] # rows[j]

\* C11 (as claimed): a row that cannot be normalized is skipped and counted
\* and never aborts its batch: the rows that can be normalized are returned,
\* all of them, in their original order, and every row left out is counted.
C11_BadRowSkippedAndCounted ==
    (batch_out.ran /\ DistinctRows(batch_in.rows)) =>
        LET rows == batch_in.rows
            each == [k \in 1..Len(rows) |-> PipelineRow(batch_in.normalizer, rows[k])]
        IN  /\ batch_out.records = AppendedRecords(each, 1)
            /\ batch_out.errors =
                   Cardinality({ k \in 1..Len(rows) : ~each[k].appended })

\* C11, the part that holds: the rows that can be normalized are all
\* returned, whatever rows stand next to them in the batch.
C11_BadRowNeverAbortsBatch ==
    (batch_out.ran /\ DistinctRows(batch_in.rows)) =>
        LET rows == batch_in.rows
        IN  \A k \in 1..Len(rows) :
                LET one == PipelineRow(batch_in.normalizer, rows[k])
                IN  one.appended =>
                        \E j \in 1..Len(batch_out.records) :
                            batch_out.records[j] = one.record

-----------------------------------------------------------------------------
(* Properties of the contour levels (checked under SpecLevels).              *)

\* floor(a / b) and ceil(a / b) for b > 0.
FloorDiv(a, b) == a \div b

CeilDiv(a, b) == -((-a) \div b)

Last(seq) == seq[Len(seq)]

\* The interval of a builder the level range is stated for.
Interval(builder) == IF builder = "combined_map" THEN 2 ELSE 5

LevelsBuiltFor(builders) ==
    /\ level_out.ran
    /\ level_in.builder \in builders
    /\ level_in.min > 0

C13_LevelsIncreasingAndCovering ==
    level_out.ran =>
        LET levels == level_out.levels
        IN  /\ Len(levels) > 0
            /\ \A k \in 1..(Len(levels) - 1) :
                   /\ levels[k] < levels[k + 1]
                   /\ levels[k + 1] - levels[k] = levels[2] - levels[1]
            /\ levels[1] * 100 <= level_in.min
            /\ Last(levels) * 100 >= level_in.max

\* C13, the builders it holds for: all but contour_generator.py.
C13_CoveringButContourGenerator ==
    (level_out.ran /\ level_in.builder # "contour_generator") =>
        LET levels == level_out.levels
        IN  /\ Len(levels) > 0
            /\ \A k \in 1..(Len(levels) - 1) :
                   /\ levels[k] < levels[k + 1]
                   /\ levels[k + 1] - levels[k] = levels[2] - levels[1]
            /\ levels[1] * 100 <= level_in.min
            /\ Last(levels) * 100 >= level_in.max

-----------------------------------------------------------------------------
(* Properties of the interpolation (checked under SpecGrid).                 *)

\* C14: after a successful interpolation every grid node holds a finite
\* value, and a node outside the convex hull of the stations holds the value
\* of its nearest station (so the value of one of the stations), in the
\* combined map as well as in the continental pressure overlay.
C14_EveryNodeFiniteNearestOutside ==
    (grid_out.ran /\ grid_out.interpolation.outcome = "overlay") =>
        \A node \in grid_out.interpolation.nodes :
            /\ node.value # NaN
            /\ ~node.in_hull =>
                   \E k \in 1..Len(grid_in.stations) :
                       node.value = grid_in.stations[k].pressure

\* C14, the part that holds: the continental overlay has no NaN node.
C14_ContinentalOverlayFinite ==
    (grid_out.ran /\ grid_in.builder = "pressure_map"
        /\ grid_out.interpolation.outcome = "overlay") =>
        \A node \in grid_out.interpolation.nodes : node.value # NaN

-----------------------------------------------------------------------------
(* Properties of the values a normalizer gives one row (SpecNormalize).      *)

\* A row of one of the two Iowa Mesonet processors was normalized.
IowaRowNormalized ==
    /\ norm_out.ran
    /\ norm_in.normalizer \in { "iowa_md", "iowa_va" }
    /\ norm_out.outcome.appended

LoadedWithTemperature(loaders) ==
    /\ norm_out.ran
    /\ norm_in.normalizer \in loaders
    /\ norm_out.outcome.appended
    /\ IsNumber(norm_in.row.t)

\* C16: load_maryland_data_from_file and load_pennsylvania_data_from_file
\* take a temperature v for Celsius, and convert it with v * 9 / 5 + 32,
\* exactly when v < 50: 49.9 is converted, 50 is not.
C16_CelsiusBelowFifty ==
    LoadedWithTemperature({ "load_md", "load_pa" }) =>
        LET v == norm_in.row.t
            temp_f == norm_out.outcome.record.temp_f
        IN  IF v < 5000
            THEN temp_f \in { (v * 9) \div 5 + 3200, Round1((v * 9) \div 5 + 3200) }
            ELSE temp_f = v

\* C16, the part that holds: the Maryland loader converts exactly below 50.
C16_MarylandBelowFifty ==
    LoadedWithTemperature({ "load_md" }) =>
        LET v == norm_in.row.t
            temp_f == norm_out.outcome.record.temp_f
        IN  IF v < 5000
            THEN temp_f = Round1((v * 9) \div 5 + 3200)
            ELSE temp_f = v

\* The columns a normalizer reads the temperature and the pressure from, and
\* the cell values that stand for "missing" in its source.
TemperatureColumn(normalizer) ==
    CASE normalizer \in { "iowa_md", "iowa_va", "asos" } -> "tmpf"
      [] normalizer = "md_frame" -> "temp"
      [] OTHER -> "t"

PressureColumns(normalizer) ==
    IF normalizer \in { "iowa_md", "iowa_va" } THEN { "mslp", "alti" } ELSE { "mslp" }

MissingCells(normalizer) ==
    IF normalizer \in { "iowa_md", "iowa_va", "asos" } THEN { NaN, M } ELSE { NaN }

\* The row has no temperature and no pressure, and nothing else is wrong
\* with it: the coordinates it carries are numbers other than zero.
RowWithoutTempAndPressure ==
    LET row == norm_in.row
        n   == norm_in.normalizer
    IN  /\ norm_out.ran
        /\ row[TemperatureColumn(n)] \in MissingCells(n)
        /\ \A c \in PressureColumns(n) : row[c] \in MissingCells(n)
        /\ \A c \in { "lat", "lon", "latitude", "longitude" } \cap DOMAIN row :
               IsNumber(row[c]) /\ row[c] # M /\ row[c] # 0

\* C17: when a row has neither a temperature nor a pressure, every normalizer
\* yields a record with the defaults, exactly 70.0 F and 1013.25 hPa.
C17_DefaultsSeventyAndStandard ==
    RowWithoutTempAndPressure =>
        /\ norm_out.outcome.appended
        /\ norm_out.outcome.record.temp_f = 7000
        /\ norm_out.outcome.record.pressure = 101325

\* C17, the part that holds: the Iowa Mesonet processors, the ASOS processor
\* and the Maryland loader give 70.0 F and 1013.25 hPa.
C17_DefaultsOfIowaAsosMaryland ==
    (RowWithoutTempAndPressure
        /\ norm_in.normalizer \in { "iowa_md", "iowa_va", "asos", "load_md" }) =>
        /\ norm_out.outcome.appended
        /\ norm_out.outcome.record.temp_f = 7000
        /\ norm_out.outcome.record.pressure = 101325

\* The normalizers that have a static coordinate table, and what the table
\* of each gives for the station of a row (the centroid of the region for a
\* station it does not hold).
LookupNormalizers == { "iowa_md", "iowa_va", "load_md", "md_frame" }

TableCoordinates ==
    CASE norm_in.normalizer = "iowa_md" -> MdStationCoordinates(norm_in.row.station)
      [] norm_in.normalizer = "iowa_va" -> VaStationCoordinates(norm_in.row.station)
      [] norm_in.normalizer = "load_md" -> get_maryland_coordinates(norm_in.row.name)
      [] norm_in.normalizer = "md_frame" -> maryland_locations(norm_in.row.name)

CoordinateColumns(row) == { "lat", "lon", "latitude", "longitude" } \cap DOMAIN row

\* C18: when a row has no usable latitude and longitude, the column being
\* absent or the value missing, its coordinates come from the static table
\* of its network, looked up by station name or id, and are the fixed
\* centroid of the region when the station is unknown.
C18_CoordinatesFromLookup ==
    (/\ norm_out.ran
     /\ norm_in.normalizer \in LookupNormalizers
     /\ \/ CoordinateColumns(norm_in.row) = { }
        \/ \A c \in CoordinateColumns(norm_in.row) : norm_in.row[c] = NaN) =>
        /\ norm_out.outcome.appended
        /\ norm_out.outcome.record.lat = TableCoordinates[1]
        /\ norm_out.outcome.record.lon = TableCoordinates[2]

\* C18, the part that holds: when the coordinate columns are absent the
\* coordinates are those of the table (unless another cell of the row made
\* its processing raise).
C18_LookupWhenColumnsAbsent ==
    (/\ norm_out.ran
     /\ norm_in.normalizer \in LookupNormalizers
     /\ CoordinateColumns(norm_in.row) = { }
     /\ ~norm_out.outcome.raised) =>
        /\ norm_out.outcome.appended
        /\ norm_out.outcome.record.lat = TableCoordinates[1]
        /\ norm_out.outcome.record.lon = TableCoordinates[2]

\* C19: no normalizer emits a station whose latitude or longitude is missing
\* or NaN, or whose coordinates are the placeholder (0.0, 0.0).
C19_NoRecordWithoutCoordinates ==
    (norm_out.ran /\ norm_out.outcome.appended) =>
        LET record == norm_out.outcome.record
        IN  /\ "lat" \in DOMAIN record /\ "lon" \in DOMAIN record
            /\ record.lat \notin { NaN, None, M }
            /\ record.lon \notin { NaN, None, M }
            /\ ~(record.lat = 0 /\ record.lon = 0)

\* C19, the part that holds: the normalizers that have a coordinate table
\* emit finite coordinates other than zero.
C19_TableNormalizersHaveCoordinates ==
    (norm_out.ran /\ norm_out.outcome.appended
        /\ norm_in.normalizer \in LookupNormalizers) =>
        LET record == norm_out.outcome.record
        IN  /\ record.lat \notin { NaN, None, M, 0 }
            /\ record.lon \notin { NaN, None, M, 0 }

-----------------------------------------------------------------------------
(* Properties of the order of the steps of a cycle (checked under SpecCycle). *)

\* The positions of the log at which the fetch of a source returned.
FetchedAt(source) ==
    { k \in 1..Len(cycle.log) : cycle.log[k] = Event("fetched", source) }

\* Event k of the log comes after the fetch of every source has returned.
AfterEveryFetch(k) ==
    \A i \in 1..Len(Sources) : \E j \in FetchedAt(Sources[i]) : j < k

\* C20: within one cycle, normalization begins only after the fetch of every
\* source has returned: no row is processed or converted before that.
C20_NormalizationAfterEveryFetch ==
    cycle.step # "rest" =>
        \A k \in 1..Len(cycle.log) :
            cycle.log[k].what \in { "normalize", "convert" } => AfterEveryFetch(k)

\* C20 (amended): the conversion of the fetched values to station records
\* (convert_mesonet_to_weather_data, convert_asos_to_weather_data and the
\* Pennsylvania loader) begins only after the fetch of every source has
\* returned; the row processing of the Maryland, Virginia and ASOS fetchers
\* runs inside the fetch of its own source, after that source's response
\* has arrived and before that fetch returns.
C20_ConversionAfterEveryFetch ==
    cycle.step # "rest" =>
        \A k \in 1..Len(cycle.log) :
            /\ cycle.log[k].what = "convert" => AfterEveryFetch(k)
            /\ cycle.log[k].what = "normalize" =>
                   /\ k > 1
                   /\ cycle.log[k - 1] = Event("payload", cycle.log[k].source)
                   /\ \A j \in FetchedAt(cycle.log[k].source) : j > k

\* C20 witness: a cycle of main() in which the Maryland rows were processed
\* before the Pennsylvania fetch had returned, and the Virginia frame was
\* converted after the fetch of every source had returned.
C20_Witness ==
    /\ cycle.step = "done"
    /\ cycle.entry = "main"
    /\ \E k \in 1..Len(cycle.log) :
           /\ cycle.log[k] = Event("normalize", "MD")
           /\ \A j \in FetchedAt("PA") : j > k
    /\ \E k \in 1..Len(cycle.log) :
           /\ cycle.log[k] = Event("convert", "VA")
           /\ AfterEveryFetch(k)

-----------------------------------------------------------------------------
(* Two-call study: the dedup loop of generate_weather_map (app.py 96-108)    *)
(* run by two calls, station by station, in every interleaving.  dedup_in    *)
(* holds the combined_data of each call, dedup_out the locals of its loop:   *)
(* at ("idle", "loop", "done"), the index of the next station,               *)
(* seen_locations and all_weather_data.  After `del` the keys the call       *)
(* recorded are kept in the state to tell what it had seen.                  *)

Calls == {1, 2}

MaxCombined == 2

\* Stations of a combined list: A and B share the key (39.10, -76.60), C has
\* the key (39.12, -76.60), N has a blank latitude.
CombinedPool ==
    { Station("A", 391001, -766002, "MD"), Station("B", 391049, -766041, "PA"),
      Station("C", 391200, -766000, "MD"), Station("N", NaN, -766002, "PA") }

\* Every key any call has recorded so far.
KeysRecorded(loops) == UNION { loops[c].seen_locations : c \in Calls }

\* One set that all calls add to, in place of a local of the call.
seen_locations_shared(recorded) == recorded

\* seen_locations = set(): a local name bound to a new, empty set object in
\* every call, whatever other calls have recorded.
seen_locations_new(recorded) == {}

LoopIdle == [at |-> "idle", i |-> 1, seen_locations |-> {},
             all_weather_data |-> << >>]

InitSeen ==
    /\ ServiceAtRest /\ mapFile = NoFile
    /\ NormAtRest /\ MapAtRest /\ StudiesAtRest
    /\ dedup_in \in [Calls -> SeqsUpTo(CombinedPool, MaxCombined)]
    /\ dedup_out = [c \in Calls |-> LoopIdle]

LoopMoves(c, locals) ==
    /\ dedup_out' = [dedup_out EXCEPT ![c] = locals]
    /\ UNCHANGED << serviceVars, dedup_in, normVars, mapVars, studyVars >>

\* all_weather_data = []; seen_locations = set()
LoopBegin(c) ==
    /\ dedup_out[c].at = "idle"
    /\ LoopMoves(c, [at |-> "loop", i |-> 1,
                     seen_locations |-> seen_locations_new(KeysRecorded(dedup_out)),
                     all_weather_data |-> << >>])

\* One turn of `for station in combined_data`.
LoopStep(c) ==
    /\ dedup_out[c].at = "loop"
    /\ dedup_out[c].i <= Len(dedup_in[c])
    /\ LET station == dedup_in[c][dedup_out[c].i]
           key == location_key(station)
           seen == dedup_out[c].seen_locations
       IN  IF ~KeySeen(key, seen)
           THEN LoopMoves(c, [at |-> "loop", i |-> dedup_out[c].i + 1,
                              seen_locations |-> seen \cup {key},
                              all_weather_data |->
                                  Append(dedup_out[c].all_weather_data, station)])
           ELSE LoopMoves(c, [dedup_out[c] EXCEPT !.i = @ + 1])

\* The loop is over: del combined_data, seen_locations
LoopEnd(c) ==
    /\ dedup_out[c].at = "loop"
    /\ dedup_out[c].i > Len(dedup_in[c])
    /\ LoopMoves(c, [dedup_out[c] EXCEPT !.at = "done"])

NextSeen ==
    \/ \E c \in Calls : LoopBegin(c)
    \/ \E c \in Calls : LoopStep(c)
    \/ \E c \in Calls : LoopEnd(c)

SpecSeen == InitSeen /\ [][NextSeen]_vars

\* C21: the set of seen keys is empty when a call begins its loop, and a
\* record is dropped by a call only for a key that an earlier record of the
\* same call's combined_data has: a key recorded by another call, finished
\* or still running, never drops a record.
C21_SeenKeysArePerCall ==
    \A c \in Calls :
        LET locals == dedup_out[c]
            done == locals.i - 1
        IN  /\ (locals.at = "loop" /\ locals.i = 1) => locals.seen_locations = {}
            /\ locals.at # "idle" =>
                   \A k \in 1..done :
                       (~\E j \in 1..(k - 1) :
                            KeyEq(location_key(dedup_in[c][j]),
                                  location_key(dedup_in[c][k])))
                       => \E n \in 1..Len(locals.all_weather_data) :
                              locals.all_weather_data[n] = dedup_in[c][k]

\* C21 witness: both calls are over, each had a station of the key the other
\* call recorded, and each kept its own.
C21_Witness ==
    /\ \A c \in Calls : dedup_out[c].at = "done" /\ Len(dedup_out[c].all_weather_data) = 1
    /\ Len(dedup_in[1]) = 2 /\ Len(dedup_in[2]) = 1
    /\ KeyEq(location_key(dedup_in[1][1]), location_key(dedup_in[2][1]))
    /\ KeyEq(location_key(dedup_in[1][1]), location_key(dedup_in[1][2]))

-----------------------------------------------------------------------------
\* The Maryland response arrived and its rows were processed into at least
\* one station.
MarylandParsed ==
    /\ cycle.step # "rest"
    /\ \E k \in 1..Len(cycle.log) : cycle.log[k] = Event("normalize", "MD")
    /\ cycle.data[SourceIndex("MD")].rows # << >>

\* C22: when the Maryland fetch succeeds and parses at least one station,
\* the Maryland value that fetch_all_mesonet_data returns is a non-empty
\* DataFrame, so that the caller's test accepts it, and the Maryland
\* stations are in the combined list of a cycle that got through.
C22_MarylandReturnedAsDataFrame ==
    MarylandParsed =>
        LET md_data == cycle.data[SourceIndex("MD")]
        IN  /\ cycle.step \in { "unpack", "convert", "done" } =>
                   /\ md_data.type = "DataFrame"
                   /\ HasStations("MD", md_data)
            /\ (cycle.step = "done" /\ cycle.entry = "main") =>
                   \A n \in 1..Len(convert_mesonet_to_weather_data(md_data.rows)) :
                       \E k \in 1..Len(cycle.stations) :
                           cycle.stations[k] =
                               convert_mesonet_to_weather_data(md_data.rows)[n]

-----------------------------------------------------------------------------
(* Latest-reading study: the Iowa processors and the ASOS processor applied  *)
(* to frames that hold several readings of one station, in any row order.    *)
(* It runs the batch actions of these three processors.                      *)

ReadingTimes == { 1200, 1205, 1210 }

\* A reading of `station` taken at `valid`; the temperature tells the
\* readings of a station apart (60.00 F at 12:00, 60.50 F at 12:05, ...).
ReadingRows(normalizer) ==
    LET tmpf(valid) == 6000 + 10 * (valid - 1200)
    IN  CASE normalizer = "iowa_md" ->
                 { [station |-> station, valid |-> valid, lat |-> 388512,
                    lon |-> -770402, tmpf |-> tmpf(valid), mslp |-> 101570,
                    alti |-> 2992, drct |-> 18000, sknt |-> 1000, relh |-> 5500] :
                   station \in { "DCA", "IAD" }, valid \in ReadingTimes }
          [] normalizer = "iowa_va" ->
                 { [station |-> station, valid |-> valid, tmpf |-> tmpf(valid),
                    mslp |-> 101570, alti |-> 2992, drct |-> 18000,
                    sknt |-> 1000, relh |-> 5500] :
                   station \in { "DCA", "IAD" }, valid \in ReadingTimes }
          [] normalizer = "asos" ->
                 { [station |-> station, valid |-> valid, lat |-> 388512,
                    lon |-> -770402, elevation |-> 1500, tmpf |-> tmpf(valid),
                    drct |-> 18000, sped |-> 1200, mslp |-> 101570] :
                   station \in { "DCA", "IAD" }, valid \in ReadingTimes }

InitLatest ==
    /\ ServiceAtRest /\ mapFile = NoFile
    /\ DedupAtRest /\ NormAtRest /\ MapAtRest /\ LevelsAtRest /\ GridAtRest
    /\ CycleAtRest
    /\ \E normalizer \in { "iowa_md", "iowa_va", "asos" } :
           \E rows \in SeqsUpTo(ReadingRows(normalizer), MaxBatch) :
               batch_in = [normalizer |-> normalizer, rows |-> rows]
    /\ batch_out = NotRun

NextLatest ==
    \/ BatchIowaMaryland
    \/ BatchIowaVirginia
    \/ BatchAsos

SpecLatest == InitLatest /\ [][NextLatest]_vars

\* The latest reading of `station` in the frame.
LatestReading(rows, station) ==
    LET of_station == { k \in 1..Len(rows) : rows[k].station = station }
    IN  rows[CHOOSE k \in of_station :
                 \A j \in of_station : rows[j].valid <= rows[k].valid]

\* C23: for every station id in the frame, the Iowa processors and the ASOS
\* processor emit at most one record, and it is built from the station's
\* row with the latest 'valid' time, whatever the order of the rows.
C23_OneRecordFromLatestReading ==
    batch_out.ran =>
        \A i \in 1..Len(batch_in.rows) :
            LET station == batch_in.rows[i].station
                emitted == { k \in 1..Len(batch_out.records) :
                                batch_out.records[k].station_id = station }
            IN  /\ Cardinality(emitted) <= 1
                /\ \A k \in emitted :
                       batch_out.records[k] =
                           PipelineRow(batch_in.normalizer,
                                       LatestReading(batch_in.rows, station)).record

-----------------------------------------------------------------------------
\* The cycle of p is about to parse the Pennsylvania CSV: its fetch returned
\* the file name and the unpacking of the fetch result succeeds.
ParsesPennsylvaniaFile(p) ==
    /\ pc[p] = "fetched"
    /\ Len(fetched[p]) = (IF p = CliProcess THEN main_unpack
                          ELSE generate_weather_map_unpack)
    /\ Truthy(fetched[p][2])

\* C24: the Pennsylvania CSV a cycle parses was written completely and only
\* by the fetch of that same cycle: it is on disk and holds the rows that
\* fetch wrote, also when another cycle runs in between.
C24_ParsesFileOfOwnFetch ==
    \A p \in Procs :
        ParsesPennsylvaniaFile(p) =>
            /\ tmpPa.exists
            /\ tmpPa.rows = fetched[p][2].rows

-----------------------------------------------------------------------------
(* Contour-generator study: create_pressure_contour_map of                   *)
(* utils/contour_generator.py applied to station lists of every length.      *)

ContourMinStations == 4

\* What a call hands back: a value, or the exception that left it.
Returned(value) == [returned |-> value, error |-> "none"]

Raises(error) == [returned |-> "raised", error |-> error]

\* generate_contour_data: a single None for fewer than four stations.  With
\* four or more it reaches np.linspace; the module imports nothing, so the
\* name np is not defined.
generate_contour_data(weather_data) ==
    IF Len(weather_data) < ContourMinStations THEN Returned("None")
    ELSE Raises("NameError")

\* a, b, c = value: a tuple of three is unpacked, None cannot be.
UnpackThree(value) ==
    IF value.returned = "raised" THEN value
    ELSE IF value.returned = "None" THEN Raises("TypeError")
    ELSE value

\* create_pressure_contour_map, lines 27-36: the result of
\* generate_contour_data is unpacked into three names before grid_values is
\* tested for None.
create_pressure_contour_map(weather_data) ==
    LET unpacked == UnpackThree(generate_contour_data(weather_data))
    IN  IF unpacked.returned = "raised" THEN unpacked
        ELSE Returned("image")

InitContour ==
    /\ ServiceAtRest /\ mapFile = NoFile
    /\ DedupAtRest /\ NormAtRest /\ MapAtRest /\ BatchAtRest /\ LevelsAtRest
    /\ CycleAtRest
    /\ \/ \E chosen \in SUBSET (1..Len(GridStationPool)) :
              grid_in = [builder |-> "contour_generator",
                         stations |-> SubSeqAt(GridStationPool, chosen, 1)]
       \/ \E chosen \in SUBSET (1..Len(CityPool)) :
              grid_in = [builder |-> "contour_generator",
                         stations |-> SubSeqAt(CityPool, chosen, 1)]
    /\ grid_out = NotRun

ContourPressureMap ==
    /\ grid_in.builder = "contour_generator"
    /\ Gridded(create_pressure_contour_map(grid_in.stations))

NextContour == ContourPressureMap

SpecContour == InitContour /\ [][NextContour]_vars

\* C25: given fewer than four stations, create_pressure_contour_map returns
\* None and raises nothing.
C25_NoneBelowFourStations ==
    (grid_out.ran /\ Len(grid_in.stations) < ContourMinStations) =>
        /\ grid_out.interpolation.returned = "None"
        /\ grid_out.interpolation.error = "none"

-----------------------------------------------------------------------------
\* The ways the body of generate_weather_map ends inside the function: at
\* the save (return True after it, or the except clause when it raises), at
\* `return False` of line 123, or in the except clause of lines 125-129.
EndsInsideTheCall == { "save", "nothing", "raised" }

\* The results with which a call returns False.
ReturnedFalse == { "nothing", "failed", "save_failed" }

\* C26: every call of generate_weather_map ends by returning True or False:
\* whatever the fetch handed back, no exception leaves the call for the
\* scheduler thread or an /api/update thread; and a call returned True
\* ("saved") only if it wrote the artifact.
C26_AlwaysReturnsTrueOrFalse ==
    \A p \in WebThreads :
        /\ pc[p] = "fetched" =>
               generate_weather_map(fetched[p], tmpPa).ends \in EndsInsideTheCall
        /\ (~Running(p) /\ result[p] # "none") =>
               result[p] \in ReturnedFalse \cup { "saved" }
        /\ result[p] = "saved" => mapFile.exists

\* C26 witness: the scheduler's call and the call of an /api/update thread
\* have both returned False after an exception was caught.
C26_Witness ==
    /\ ~Running(SchedThread) /\ result[SchedThread] = "failed"
    /\ \E u \in UpdateThreads : ~Running(u) /\ result[u] = "failed"

-----------------------------------------------------------------------------
\* C27: whenever /api/status answers "generating", a generation cycle of
\* the service is in progress: the answer is never "generating" while no
\* cycle is running.
C27_GeneratingOnlyWhileACycleRuns ==
    [][ (api_status /\ status' = "generating") =>
            \E p \in WebThreads : Running(p) ]_vars

-----------------------------------------------------------------------------
\* The station ids a request names: requests sends a str value as one
\* `station` parameter.
StationsNamed(params) ==
    IF "station" \in DOMAIN params THEN { params["station"] } ELSE {}

\* C28: after the parameter-building loop of
\* MarylandMesonetFetcher.fetch_current_data, the request names every
\* station id of md_stations, not only one of them.
C28_RequestNamesEveryStation ==
    cycle.step # "rest" =>
        \A k \in 1..Len(cycle.log) :
            cycle.log[k].what = "request" =>
                \A i \in 1..Len(md_stations) :
                    md_stations[i] \in StationsNamed(cycle.log[k].params)

-----------------------------------------------------------------------------
\* C29: deduplication is idempotent: the dedup loop run on its own output
\* returns that output unchanged, for every input.
C29_DedupIsIdempotent ==
    dedup_out.ran => Dedup(dedup_out.all_weather_data) = dedup_out.all_weather_data

\* C29 witness: the loop dropped two records of a list, kept two records
\* with keys and one whose key holds a NaN, and leaves that output as it is.
C29_Witness ==
    /\ dedup_out.ran
    /\ Len(dedup_out.all_weather_data) = Len(dedup_out.combined_data) - 2
    /\ Len(dedup_out.all_weather_data) = 3
    /\ \E n \in 1..3 : dedup_out.all_weather_data[n].lat = NaN
    /\ Dedup(dedup_out.all_weather_data) = dedup_out.all_weather_data

-----------------------------------------------------------------------------
\* The row has coordinate columns and every coordinate cell is a number.
NumericCoordinates(row) ==
    /\ CoordinateColumns(row) # { }
    /\ \A c \in CoordinateColumns(row) : row[c] \notin { NaN, None, M }

\* C30: a row with numeric coordinates is never discarded for lack of
\* coordinates, a latitude or longitude of exactly 0.0 included, by the
\* Iowa processors and by load_pennsylvania_data_from_file: such a row is
\* left out only when it has no reading at all or when one of its cells
\* cannot be converted.
C30_NumericCoordinatesNeverDiscarded ==
    (/\ norm_out.ran
     /\ norm_in.normalizer \in { "iowa_md", "iowa_va", "load_pa" }
     /\ NumericCoordinates(norm_in.row)
     /\ norm_in.normalizer = "load_pa" =>
            (notna(norm_in.row.t) \/ notna(norm_in.row.mslp))) =>
        norm_out.outcome.appended \/ norm_out.outcome.raised

====
